---- MODULE Spec2Model ----
(***************************************************************************)
(* Model of the containers CLI (vupham90/containers): the docker argument  *)
(* builder, its log redaction, RunContainer and RunDaemon (docker.go), the *)
(* keychain credential provider (keychain/keychain.go) and the Bitwarden   *)
(* backup commands (bw_backup.go).                                         *)
(*                                                                         *)
(* Go strings are modelled as sequences of one-character strings, so that  *)
(* prefix tests, concatenation, trimming and joining are computed the way  *)
(* the code computes them.                                                 *)
(***************************************************************************)
EXTENDS Integers, Sequences, FiniteSets, TLC

VARIABLES
  \* sanitizeDockerArgs called on its own (docker_test.go)
  sanPc,        \* "init" -> "returned" -> "used"
  sanHeap,      \* backing arrays of the slices: reference -> sequence of strings
  sanArgs,      \* the caller's argv slice (a reference into sanHeap)
  sanEnv,       \* the env map handed to sanitizeDockerArgs
  sanResult,    \* the slice sanitizeDockerArgs returned (0 before the call)
  sanOriginal,  \* the caller's argv as it was before the call
  sanExec,      \* what the caller reads from its argv after the call
  \* the keychain and calls of getCredential
  kcStore,      \* the keychain: account -> stored password
  credPc,       \* "init" -> "returned"
  credIn,       \* arguments of the last call, and the line typed if it prompted
  credOut,      \* its returned value and error, the store operations it
                \* issued and the prompts it showed
  credBefore,   \* the keychain as it was before the last call
  \* RunContainer and RunDaemon
  runPc,        \* "init" -> "returned"
  runIn,        \* arguments of the call and what the environment did during it
  runOut,       \* its returned error and its events: lines printed, processes run
  \* a backup job: runSingleBackup, or backupVault
  bkPc,         \* "clientId" -> "clientSecret" -> "password" -> "backupPassword"
                \* -> "dir" -> "launch" -> "done"
  bkIn,         \* mode ("single" or "vault"), profile, reset, credential flags
  bkCreds,      \* the credentials resolved so far
  bkDir,        \* the resolved backup directory
  bkErr,        \* the error the job returns
  bkEvents,     \* lines printed and processes run, in order
  \* the ibgateway command, called again and again against one docker runtime
  dmPc,         \* "ready" while the command can be called
  dmContainers, \* the containers of the runtime, newest first: name and identity
  dmCalls,      \* the calls made so far: arguments, the step at which the
                \* docker daemon failed, returned error, events, and the
                \* containers before and after
  \* runBatchBackup
  btPc,         \* "start" -> ("personal" -> "orgs")* -> "summary" -> "done"
  btIn,         \* the profiles of the config file, the flags, and how a job
                \* of this batch fails when it fails
  btI,          \* index of the profile being processed
  btJ,          \* index of the next organization of that profile
  btPassword,   \* the backup password handed to every job
  btErrors,     \* errors: one message per failed job
  btSuccess,    \* successCount
  btEvents,     \* lines printed and jobs attempted, in order
  btErr         \* the error runBatchBackup returns

sanVars == <<sanPc, sanHeap, sanArgs, sanEnv, sanResult, sanOriginal, sanExec>>
credVars == <<kcStore, credPc, credIn, credOut, credBefore>>

runVars == <<runPc, runIn, runOut>>
bkVars == <<bkPc, bkIn, bkCreds, bkDir, bkErr, bkEvents>>

dmVars == <<dmPc, dmContainers, dmCalls>>

btVars == <<btPc, btIn, btI, btJ, btPassword, btErrors, btSuccess, btEvents, btErr>>

vars == <<sanVars, credVars, runVars, bkVars, dmVars, btVars>>

-----------------------------------------------------------------------------
(* Bounds                                                                  *)

\* longest argv handed to sanitizeDockerArgs on its own
MaxArgs == 3
\* number of accounts that hold a password when getCredential is called
MaxStored == 1
\* longest list of trailing arguments handed to RunContainer
MaxRunArgs == 1

-----------------------------------------------------------------------------
(* Strings                                                                 *)

\* strings.HasPrefix(s, p)
HasPrefix(s, p) == Len(p) <= Len(s) /\ SubSeq(s, 1, Len(p)) = p

\* strings.Contains(s, sub)
Contains(s, sub) ==
  \E i \in 1..(Len(s) + 1) :
    i + Len(sub) - 1 <= Len(s) /\ SubSeq(s, i, i + Len(sub) - 1) = sub

\* unicode.IsSpace on the characters the model uses
IsSpace(c) == c \in {" ", "\n", "\t", "\r"}

RECURSIVE TrimLeft(_)
TrimLeft(s) == IF s # <<>> /\ IsSpace(Head(s)) THEN TrimLeft(Tail(s)) ELSE s

RECURSIVE TrimRight(_)
TrimRight(s) ==
  IF s # <<>> /\ IsSpace(s[Len(s)]) THEN TrimRight(SubSeq(s, 1, Len(s) - 1)) ELSE s

\* strings.TrimSpace(s)
TrimSpace(s) == TrimRight(TrimLeft(s))

\* strings.Join(elems, sep)
RECURSIVE Join(_, _)
Join(elems, sep) ==
  IF elems = <<>> THEN <<>>
  ELSE IF Len(elems) = 1 THEN elems[1]
  ELSE elems[1] \o sep \o Join(Tail(elems), sep)

\* All sequences over S of length at most n
SeqsUpTo(S, n) == UNION {[1..k -> S] : k \in 0..n}

\* Position of the first "=" of a token (0 when it has none), and the NAME
\* and VALUE parts of a NAME=VALUE token.  Used to state properties only.
HasEq(tok) == \E k \in 1..Len(tok) : tok[k] = "="
FirstEq(tok) == CHOOSE k \in 1..Len(tok) : tok[k] = "=" /\ \A m \in 1..(k - 1) : tok[m] # "="
NameOf(tok) == SubSeq(tok, 1, FirstEq(tok) - 1)
ValueOf(tok) == SubSeq(tok, FirstEq(tok) + 1, Len(tok))

-----------------------------------------------------------------------------
(* docker.go: EnvVar and sanitizeDockerArgs                                *)

\* "-e"
DashE == <<"-","e">>
\* "="
EqSign == <<"=">>
\* "***REDACTED***"
RedactionMarker == <<"*","*","*","R","E","D","A","C","T","E","D","*","*","*">>

\* type EnvVar struct { Value string; Sensitive bool }
EnvVar(value, sensitive) == [Value |-> value, Sensitive |-> sensitive]

\* (mutant) result := args -- the returned slice shares the caller's array
SanitizeAllocAliased(h, args) == [heap |-> h, ref |-> args]

\* result := make([]string, len(args)); copy(result, args)
\* A slice is a reference into the heap of backing arrays; the copy gets a
\* fresh backing array.
SanitizeAlloc(h, args) ==
  LET r == Cardinality(DOMAIN h) + 1
  IN  [heap |-> h @@ (r :> h[args]), ref |-> r]

\* (mutant) arg == "-e" && i+2 < len(result)
IsEnvFlagWithNextOffByOne(result, i) == result[i] = DashE /\ i + 2 <= Len(result)

\* arg == "-e" && i+1 < len(result)   (i is 1-based here)
IsEnvFlagWithNext(result, i) == result[i] = DashE /\ i + 1 <= Len(result)

\* (mutant) the Sensitive flag is not consulted
MatchingKeysAnyTag(envPair, env) ==
  {key \in DOMAIN env : HasPrefix(envPair, key \o EqSign)}

\* The keys for which  envVar.Sensitive && strings.HasPrefix(envPair, key+"=")
\* holds.  The loop takes the first one the map iteration yields and breaks;
\* Go's map iteration order is unspecified, so any of them may be taken.
MatchingKeys(envPair, env) ==
  {key \in DOMAIN env : env[key].Sensitive /\ HasPrefix(envPair, key \o EqSign)}

\* result[i+1] = key + "=***REDACTED***"
RedactedPair(key) == key \o EqSign \o RedactionMarker

\* for i, arg := range result { ... }  from index i on; yields every result
\* the loop can produce.
RECURSIVE SanitizeLoop(_, _, _)
SanitizeLoop(result, i, env) ==
  IF i > Len(result) THEN {result}
  ELSE IF IsEnvFlagWithNext(result, i)
  THEN LET envPair == result[i + 1]
           keys == MatchingKeys(envPair, env)
       IN  IF keys = {} THEN SanitizeLoop(result, i + 1, env)
           ELSE UNION {SanitizeLoop([result EXCEPT ![i + 1] = RedactedPair(key)],
                                    i + 1, env) : key \in keys}
  ELSE SanitizeLoop(result, i + 1, env)

\* func sanitizeDockerArgs(args []string, env map[string]EnvVar) []string
\* on heap h; yields the possible (heap, returned slice) outcomes.
sanitizeDockerArgs(h, args, env) ==
  LET a == SanitizeAlloc(h, args)
  IN  {[heap |-> [a.heap EXCEPT ![a.ref] = r], result |-> a.ref] :
         r \in SanitizeLoop(a.heap[a.ref], 1, env)}

-----------------------------------------------------------------------------
(* keychain/keychain.go: the credential store and GetOrSetPassword         *)
(*                                                                         *)
(* The store is the macOS Keychain reached through the `security` command: *)
(* a map from account to password.  Every store operation is one external  *)
(* process that may fail; o holds what the environment does during one     *)
(* call: whether each process succeeds, whether the prompt can be read,    *)
(* and the line the user types.                                            *)

\* error values: Nil, or the chain of messages from the outermost wrapper
\* to the cause; fmt.Errorf("msg: %w", err) puts msg in front of err's chain
\* and err.Error() joins the chain with ": "
Nil == <<>>
Wrap(msg, err) == <<msg>> \o err
ErrorText(err) == Join(err, <<":"," ">>)
\* (*exec.ExitError).Error() of a `security` process that failed
SecurityExitError == <<<<"e","x","i","t"," ","s","t","a","t","u","s"," ","1">>>>

EmptyStore == [a \in {} |-> <<>>]
StoreSet(store, account, password) ==
  [a \in DOMAIN store \cup {account} |-> IF a = account THEN password ELSE store[a]]
StoreDelete(store, account) == [a \in DOMAIN store \ {account} |-> store[a]]

KcOp(op, account, ok) == [op |-> op, account |-> account, ok |-> ok]

\* (mutant) the output of `security ... -w` is returned as printed
getPasswordUntrimmed(store, account, ok) ==
  IF ok /\ account \in DOMAIN store
  THEN [value |-> store[account] \o <<"\n">>, err |-> Nil]
  ELSE [value |-> <<>>, err |-> Wrap(<<"f","a","i","l","e","d"," ","t","o"," ","r","e","t","r","i","e","v","e"," ">> \o account \o <<" ","f","r","o","m"," ","K","e","y","c","h","a","i","n">>, SecurityExitError)]

\* func getPassword(account string) (string, error)
\* `security find-generic-password -a account -w` prints the password and a
\* newline, and fails when the item is missing or the keychain unreachable.
getPassword(store, account, ok) ==
  IF ok /\ account \in DOMAIN store
  THEN [value |-> TrimSpace(store[account] \o <<"\n">>), err |-> Nil]
  ELSE [value |-> <<>>, err |-> Wrap(<<"f","a","i","l","e","d"," ","t","o"," ","r","e","t","r","i","e","v","e"," ">> \o account \o <<" ","f","r","o","m"," ","K","e","y","c","h","a","i","n">>, SecurityExitError)]

\* func setPassword(account, password string) error   (add-generic-password -U)
setPassword(store, account, password, ok) ==
  IF ok
  THEN [store |-> StoreSet(store, account, password), err |-> Nil]
  ELSE [store |-> store, err |-> Wrap(<<"f","a","i","l","e","d"," ","t","o"," ","s","e","t"," ","p","a","s","s","w","o","r","d"," ","f","o","r"," ">> \o account \o <<" ","i","n"," ","K","e","y","c","h","a","i","n">>, SecurityExitError)]

\* func passwordExists(account string) bool   (cmd.Run() == nil)
passwordExists(store, account, ok) == ok /\ account \in DOMAIN store

\* func deletePassword(account string) error
deletePassword(store, account, ok) ==
  IF ok /\ account \in DOMAIN store
  THEN [store |-> StoreDelete(store, account), err |-> Nil]
  ELSE [store |-> store, err |-> Wrap(<<"f","a","i","l","e","d"," ","t","o"," ","d","e","l","e","t","e"," ","p","a","s","s","w","o","r","d"," ","f","o","r"," ">> \o account \o <<" ","f","r","o","m"," ","K","e","y","c","h","a","i","n">>, SecurityExitError)]

\* (mutant) a prompt that cannot be read yields the empty password
promptPasswordIgnoresError(o) ==
  IF o.promptOk
  THEN [value |-> TrimSpace(o.typed \o <<"\n">>), err |-> Nil]
  ELSE [value |-> <<>>, err |-> Nil]

\* func promptPassword(prompt string) (string, error)
\* reader.ReadString('\n') yields the typed line with its newline;
\* the result is strings.TrimSpace of it.
promptPassword(o) ==
  IF o.promptOk
  THEN [value |-> TrimSpace(o.typed \o <<"\n">>), err |-> Nil]
  ELSE [value |-> <<>>, err |-> Wrap(<<"f","a","i","l","e","d"," ","t","o"," ","r","e","a","d"," ","p","a","s","s","w","o","r","d">>, <<<<"E","O","F">>>>)]

\* fmt.Printf("Password for '%s' <what>.\n", account)
PasswordLine(account, what) == <<"P","a","s","s","w","o","r","d"," ","f","o","r"," ","'">> \o account \o <<"'"," ">> \o what \o <<"\n">>
\* fmt.Sprintf("Enter password for '%s': ", account)
EnterPrompt(account) == <<"E","n","t","e","r"," ","p","a","s","s","w","o","r","d"," ","f","o","r"," ","'">> \o account \o <<"'",":"," ">>
\* fmt.Sprintf("Enter new password for '%s': ", account)
EnterNewPrompt(account) == <<"E","n","t","e","r"," ","n","e","w"," ","p","a","s","s","w","o","r","d"," ","f","o","r"," ","'">> \o account \o <<"'",":"," ">>

\* prompt, then store: the common tail of GetOrSetPassword (lines 63-74,
\* wrapMsg "failed to save password to Keychain", what "saved to Keychain")
\* and of updatePassword (lines 79-89, wrapMsg "failed to update password in
\* Keychain", what "updated in Keychain").  out is what the call prints.
PromptAndStore(store, account, o, prompt, wrapMsg, what) ==
  LET p == promptPassword(o)
      pr == <<[text |-> prompt, account |-> account]>>
  IN  IF p.err # Nil
      THEN [store |-> store, value |-> <<>>, err |-> p.err, ops |-> <<>>,
            prompts |-> pr, out |-> <<prompt>>]
      ELSE LET s == setPassword(store, account, p.value, o.setOk)
               sOp == <<KcOp("set", account, o.setOk)>>
           IN  IF s.err # Nil
               THEN [store |-> s.store, value |-> <<>>, err |-> Wrap(wrapMsg, s.err),
                     ops |-> sOp, prompts |-> pr, out |-> <<prompt>>]
               ELSE [store |-> s.store, value |-> p.value, err |-> Nil,
                     ops |-> sOp, prompts |-> pr,
                     out |-> <<prompt, PasswordLine(account, what)>>]

\* func updatePassword(account string) (string, error)
updatePassword(store, account, o) ==
  PromptAndStore(store, account, o, EnterNewPrompt(account),
                 <<"f","a","i","l","e","d"," ","t","o"," ","u","p","d","a","t","e"," ","p","a","s","s","w","o","r","d"," ","i","n"," ","K","e","y","c","h","a","i","n">>, <<"u","p","d","a","t","e","d"," ","i","n"," ","K","e","y","c","h","a","i","n",".">>)

\* (mutant) with reset, the stored value is replaced when the new one is
\* written and not deleted before
GetOrSetPasswordPromptsFirst(store, account, reset, o) ==
  LET exists == passwordExists(store, account, o.existsOk)
      exOp == <<KcOp("exists", account, o.existsOk)>>
  IN  IF reset
      THEN LET u == updatePassword(store, account, o)
           IN  [u EXCEPT !.ops = exOp \o u.ops]
      ELSE IF exists
      THEN LET g == getPassword(store, account, o.getOk)
           IN  [store |-> store, value |-> g.value, err |-> g.err,
                ops |-> exOp \o <<KcOp("get", account, o.getOk)>>, prompts |-> <<>>,
                out |-> <<>>]
      ELSE LET r == PromptAndStore(store, account, o, EnterPrompt(account),
                                   <<"f","a","i","l","e","d"," ","t","o"," ","s","a","v","e"," ","p","a","s","s","w","o","r","d"," ","t","o"," ","K","e","y","c","h","a","i","n">>,
                                   <<"s","a","v","e","d"," ","t","o"," ","K","e","y","c","h","a","i","n",".">>)
           IN  [r EXCEPT !.ops = exOp \o r.ops,
                         !.out = <<PasswordLine(account, <<"n","o","t"," ","f","o","u","n","d"," ","i","n"," ","K","e","y","c","h","a","i","n",".">>)>> \o r.out]

\* (mutant) with reset, a stored value is still returned without a prompt
GetOrSetPasswordResetKeeps(store, account, reset, o) ==
  LET exists == passwordExists(store, account, o.existsOk)
      exOp == <<KcOp("exists", account, o.existsOk)>>
  IN  IF exists
      THEN LET g == getPassword(store, account, o.getOk)
           IN  [store |-> store, value |-> g.value, err |-> g.err,
                ops |-> exOp \o <<KcOp("get", account, o.getOk)>>, prompts |-> <<>>,
                out |-> <<>>]
      ELSE LET r == PromptAndStore(store, account, o, EnterPrompt(account),
                                   <<"f","a","i","l","e","d"," ","t","o"," ","s","a","v","e"," ","p","a","s","s","w","o","r","d"," ","t","o"," ","K","e","y","c","h","a","i","n">>,
                                   <<"s","a","v","e","d"," ","t","o"," ","K","e","y","c","h","a","i","n",".">>)
           IN  [r EXCEPT !.ops = exOp \o r.ops,
                         !.out = <<PasswordLine(account, <<"n","o","t"," ","f","o","u","n","d"," ","i","n"," ","K","e","y","c","h","a","i","n",".">>)>> \o r.out]

\* func GetOrSetPassword(account string, reset bool) (string, error)
\* yields the store after the call, the returned value and error, the store
\* operations issued, the prompts shown and the text printed.
GetOrSetPassword(store, account, reset, o) ==
  LET exists == passwordExists(store, account, o.existsOk)
      exOp == <<KcOp("exists", account, o.existsOk)>>
  IN  IF reset
      THEN LET d == IF exists THEN deletePassword(store, account, o.deleteOk)
                    ELSE [store |-> store, err |-> Nil]   \* _ = deletePassword(account)
               dOp == IF exists THEN <<KcOp("delete", account, o.deleteOk)>> ELSE <<>>
               u == updatePassword(d.store, account, o)
           IN  [u EXCEPT !.ops = exOp \o dOp \o u.ops]
      ELSE IF exists
      THEN LET g == getPassword(store, account, o.getOk)
           IN  [store |-> store, value |-> g.value, err |-> g.err,
                ops |-> exOp \o <<KcOp("get", account, o.getOk)>>, prompts |-> <<>>,
                out |-> <<>>]
      ELSE LET r == PromptAndStore(store, account, o, EnterPrompt(account),
                                   <<"f","a","i","l","e","d"," ","t","o"," ","s","a","v","e"," ","p","a","s","s","w","o","r","d"," ","t","o"," ","K","e","y","c","h","a","i","n">>,
                                   <<"s","a","v","e","d"," ","t","o"," ","K","e","y","c","h","a","i","n",".">>)
           IN  [r EXCEPT !.ops = exOp \o r.ops,
                         !.out = <<PasswordLine(account, <<"n","o","t"," ","f","o","u","n","d"," ","i","n"," ","K","e","y","c","h","a","i","n",".">>)>> \o r.out]

-----------------------------------------------------------------------------
(* bw_backup.go: getCredential                                             *)

\* keychain accounts of the three Bitwarden credentials
BitwardenClientId == <<"b","i","t","w","a","r","d","e","n","_","c","l","i","e","n","t","_","i","d">>
BitwardenClientSecret == <<"b","i","t","w","a","r","d","e","n","_","c","l","i","e","n","t","_","s","e","c","r","e","t">>
BitwardenPassword == <<"b","i","t","w","a","r","d","e","n","_","p","a","s","s","w","o","r","d">>
\* "_"
Underscore == <<"_">>

\* (mutant) every profile uses the unsuffixed account
AccountForShared(keychainAccount, profile) == keychainAccount

\* (mutant) the suffix is appended also for the empty profile
AccountForAlwaysSuffixed(keychainAccount, profile) ==
  keychainAccount \o Underscore \o profile

\* account := keychainAccount
\* if profile != "" { account = fmt.Sprintf("%s_%s", keychainAccount, profile) }
AccountFor(keychainAccount, profile) ==
  IF profile # <<>> THEN keychainAccount \o Underscore \o profile ELSE keychainAccount

\* (mutant) --reset goes to the keychain even when the flag gives a value
getCredentialResetFirst(store, flagValue, keychainAccount, profile, reset, o) ==
  IF flagValue # <<>> /\ ~reset
  THEN [store |-> store, value |-> flagValue, err |-> Nil, ops |-> <<>>, prompts |-> <<>>,
        out |-> <<>>]
  ELSE GetOrSetPassword(store, AccountFor(keychainAccount, profile), reset, o)

\* func getCredential(flagValue, keychainAccount, profile string, reset bool) (string, error)
getCredential(store, flagValue, keychainAccount, profile, reset, o) ==
  IF flagValue # <<>>
  THEN [store |-> store, value |-> flagValue, err |-> Nil, ops |-> <<>>, prompts |-> <<>>,
        out |-> <<>>]
  ELSE GetOrSetPassword(store, AccountFor(keychainAccount, profile), reset, o)

-----------------------------------------------------------------------------
(* docker.go: RunContainer and RunDaemon                                   *)

\* what a call does that can be observed, in order: lines it prints and
\* child processes it runs
Printed(stream, text) == [kind |-> "print", stream |-> stream, text |-> text]
\* (mutant) exec.Command(name, argv...).Start(): the call returns while the
\* process runs
ExecutedWithoutWait(name, argv, run) ==
  [kind |-> "exec", argv |-> <<name>> \o argv, started |-> run # "nostart", outcome |-> run,
   waited |-> FALSE]

\* exec.Command(name, argv...).Run() or .Output(): the process is started
\* and waited for; started is FALSE when it could not be started, waited
\* is TRUE when the call returns after the process has ended
Executed(name, argv, run) ==
  [kind |-> "exec", argv |-> <<name>> \o argv, started |-> run # "nostart", outcome |-> run,
   waited |-> run # "nostart"]

Lines(events) == SelectSeq(events, LAMBDA e : e.kind = "print")
Procs(events) == SelectSeq(events, LAMBDA e : e.kind = "exec")

\* the ways a child process can end: exit status 0, 1 or 2 (the backup
\* script exits 1 when authentication fails and 2 when the export fails),
\* or the process cannot be started at all
RunOutcomes == {"exit0", "exit1", "exit2", "nostart"}

\* (mutant) exit status 2 is taken for success
RunErrorExit2Ignored(run) ==
  CASE run = "exit0" -> <<>>
    [] run = "exit1" -> <<<<"e","x","i","t"," ","s","t","a","t","u","s"," ","1">>>>
    [] run = "exit2" -> <<>>
    [] OTHER -> <<<<"e","x","e","c",":"," ","\"","d","o","c","k","e","r","\"",":"," ","e","x","e","c","u","t","a","b","l","e"," ","f","i","l","e"," ","n","o","t"," ","f","o","u","n","d"," ","i","n"," ","$","P","A","T","H">>>>

\* the error of cmd.Run()
RunError(run) ==
  CASE run = "exit0" -> Nil
    [] run = "exit1" -> <<<<"e","x","i","t"," ","s","t","a","t","u","s"," ","1">>>>
    [] run = "exit2" -> <<<<"e","x","i","t"," ","s","t","a","t","u","s"," ","2">>>>
    [] run = "exit125" -> <<<<"e","x","i","t"," ","s","t","a","t","u","s"," ","1","2","5">>>>
    [] OTHER -> <<<<"e","x","e","c",":"," ","\"","d","o","c","k","e","r","\"",":"," ","e","x","e","c","u","t","a","b","l","e"," ","f","i","l","e"," ","n","o","t"," ","f","o","u","n","d"," ","i","n"," ","$","P","A","T","H">>>>

\* os.Getwd() and os.UserHomeDir() when they succeed
Cwd == <<"/","c","w","d">>
Home == <<"/","h","o","m","e">>
Slash == <<"/">>

\* filepath.Clean for paths without "." and ".." elements: repeated
\* separators collapse and a trailing separator goes, except for the root
RECURSIVE CleanPath(_)
CleanPath(path) ==
  IF Len(path) <= 1 THEN path
  ELSE IF path[1] = "/" /\ path[2] = "/" THEN CleanPath(Tail(path))
  ELSE IF Len(path) = 2 /\ path[2] = "/" THEN <<path[1]>>
  ELSE <<path[1]>> \o CleanPath(Tail(path))

IsAbs(path) == path # <<>> /\ path[1] = "/"

\* filepath.Abs(path): an absolute path is cleaned, any other path is joined
\* to the working directory, which fails when os.Getwd fails
Abs(path, cwdOk) ==
  IF IsAbs(path) THEN [path |-> CleanPath(path), err |-> Nil]
  ELSE IF ~cwdOk THEN [path |-> <<>>, err |-> <<<<"g","e","t","w","d",":"," ","n","o"," ","s","u","c","h"," ","f","i","l","e"," ","o","r"," ","d","i","r","e","c","t","o","r","y">>>>]
  ELSE IF path = <<>> THEN [path |-> Cwd, err |-> Nil]
  ELSE [path |-> CleanPath(Cwd \o Slash \o path), err |-> Nil]

\* what os.Stat(dir) reports: nil, ENOENT, or another error (EACCES)
StatOutcomes == {"ok", "notexist", "denied"}

\* (mutant) the missing directory is not noticed
WorkDirMissingIgnored(stat) == FALSE

\* if _, err := os.Stat(absWorkDir); os.IsNotExist(err)
WorkDirMissing(stat) == stat = "notexist"

\* for _, mount := range tmpfs { dockerArgs = append(dockerArgs, "--tmpfs", mount) }
RECURSIVE TmpfsArgs(_)
TmpfsArgs(tmpfs) ==
  IF tmpfs = <<>> THEN <<>>
  ELSE <<<<"-","-","t","m","p","f","s">>, Head(tmpfs)>> \o TmpfsArgs(Tail(tmpfs))

\* for key, envVar := range env { dockerArgs = append(dockerArgs, "-e", key+"="+envVar.Value) }
\* order is the order in which this range visits the keys
RECURSIVE EnvArgs(_, _)
EnvArgs(env, order) ==
  IF order = <<>> THEN <<>>
  ELSE <<DashE, Head(order) \o EqSign \o env[Head(order)].Value>> \o EnvArgs(env, Tail(order))

\* (mutant) the env pairs are appended before the tmpfs pairs
ContainerArgsEnvFirst(image, absWorkDir, args, env, envOrder, tmpfs, removeContainer) ==
  <<<<"r","u","n">>>>
    \o (IF removeContainer THEN <<<<"-","-","r","m">>>> ELSE <<>>)
    \o EnvArgs(env, envOrder)
    \o TmpfsArgs(tmpfs)
    \o <<<<"-","v">>, absWorkDir \o <<":","/","w","o","r","k","s","p","a","c","e">>, <<"-","w">>, <<"/","w","o","r","k","s","p","a","c","e">>, image>>
    \o args

\* dockerArgs as built by RunContainer, lines 33-58
ContainerArgs(image, absWorkDir, args, env, envOrder, tmpfs, removeContainer) ==
  <<<<"r","u","n">>>>
    \o (IF removeContainer THEN <<<<"-","-","r","m">>>> ELSE <<>>)
    \o TmpfsArgs(tmpfs)
    \o EnvArgs(env, envOrder)
    \o <<<<"-","v">>, absWorkDir \o <<":","/","w","o","r","k","s","p","a","c","e">>, <<"-","w">>, <<"/","w","o","r","k","s","p","a","c","e">>, image>>
    \o args

\* fmt.Printf("Executing: docker %s\n", strings.Join(sanitizedArgs, " "))
ExecutingLine(sanitizedArgs) ==
  Printed("stdout", <<"E","x","e","c","u","t","i","n","g",":"," ","d","o","c","k","e","r"," ">> \o Join(sanitizedArgs, <<" ">>) \o <<"\n">>)

\* (mutant) the line is printed from the argv itself
LoggedArgsUnredacted(h, dockerArgs, env) ==
  {[heap |-> h @@ (Cardinality(DOMAIN h) + 1 :> h[dockerArgs]),
    result |-> Cardinality(DOMAIN h) + 1]}

\* sanitizedArgs := sanitizeDockerArgs(dockerArgs, env)
LoggedArgs(h, dockerArgs, env) == sanitizeDockerArgs(h, dockerArgs, env)

\* (mutant) the command is run first and logged afterwards
RunContainerLogsAfter(image, workDir, args, env, tmpfs, removeContainer, w) ==
  LET abs == Abs(workDir, w.cwdOk)
  IN  IF abs.err # Nil
      THEN {[err |-> Wrap(<<"f","a","i","l","e","d"," ","t","o"," ","r","e","s","o","l","v","e"," ","w","o","r","k"," ","d","i","r","e","c","t","o","r","y">>, abs.err), events |-> <<>>]}
      ELSE IF WorkDirMissing(w.stat)
      THEN {[err |-> <<<<"w","o","r","k"," ","d","i","r","e","c","t","o","r","y"," ","d","o","e","s"," ","n","o","t"," ","e","x","i","s","t",":"," ">> \o abs.path>>, events |-> <<>>]}
      ELSE LET dockerArgs ==
                 ContainerArgs(image, abs.path, args, env, w.envOrder, tmpfs, removeContainer)
           IN  {[err |-> IF RunError(w.run) # Nil
                         THEN Wrap(<<"d","o","c","k","e","r"," ","r","u","n"," ","f","a","i","l","e","d">>, RunError(w.run)) ELSE Nil,
                 events |-> <<Executed(<<"d","o","c","k","e","r">>, s.heap[1], w.run),
                              ExecutingLine(s.heap[s.result])>>]
                  : s \in LoggedArgs((1 :> dockerArgs), 1, env)}

\* func RunContainer(image, workDir string, args []string, env map[string]EnvVar,
\*                   tmpfs []string, removeContainer bool) error
\* w is what the environment does during the call: whether os.Getwd works,
\* what os.Stat reports, the order in which the env map is ranged over and
\* how the docker process ends.  Yields the returned error and the events.
RunContainer(image, workDir, args, env, tmpfs, removeContainer, w) ==
  LET abs == Abs(workDir, w.cwdOk)
  IN  IF abs.err # Nil
      THEN {[err |-> Wrap(<<"f","a","i","l","e","d"," ","t","o"," ","r","e","s","o","l","v","e"," ","w","o","r","k"," ","d","i","r","e","c","t","o","r","y">>, abs.err), events |-> <<>>]}
      ELSE IF WorkDirMissing(w.stat)
      THEN {[err |-> <<<<"w","o","r","k"," ","d","i","r","e","c","t","o","r","y"," ","d","o","e","s"," ","n","o","t"," ","e","x","i","s","t",":"," ">> \o abs.path>>, events |-> <<>>]}
      ELSE LET dockerArgs ==
                 ContainerArgs(image, abs.path, args, env, w.envOrder, tmpfs, removeContainer)
           IN  {[err |-> IF RunError(w.run) # Nil
                         THEN Wrap(<<"d","o","c","k","e","r"," ","r","u","n"," ","f","a","i","l","e","d">>, RunError(w.run)) ELSE Nil,
                 events |-> <<ExecutingLine(s.heap[s.result]),
                              Executed(<<"d","o","c","k","e","r">>, s.heap[1], w.run)>>]
                  : s \in LoggedArgs((1 :> dockerArgs), 1, env)}

\* for hostPort, containerPort := range ports { ... "-p", hostPort+":"+containerPort }
RECURSIVE PortArgs(_, _)
PortArgs(ports, order) ==
  IF order = <<>> THEN <<>>
  ELSE <<<<"-","p">>, Head(order) \o <<":">> \o ports[Head(order)]>> \o PortArgs(ports, Tail(order))

\* for _, line := range []string{string(output)} { if line == name { ... } }
\* the one element ranged over is the whole output of `docker ps`
ContainerListed(output, name) == \E line \in {output} : line = name

\* dockerArgs as built by RunDaemon, lines 106-124
DaemonArgs(name, image, ports, portOrder, env, envOrder) ==
  <<<<"r","u","n">>, <<"-","d">>, <<"-","-","n","a","m","e">>, name, <<"-","-","r","e","s","t","a","r","t">>, <<"u","n","l","e","s","s","-","s","t","o","p","p","e","d">>>>
    \o PortArgs(ports, portOrder)
    \o EnvArgs(env, envOrder)
    \o <<image>>

\* (mutant) a failed removal is not noticed and the container is run
RunDaemonIgnoresRemoveError(name, image, ports, env, w) ==
  LET list == Executed(<<"d","o","c","k","e","r">>, <<<<"p","s">>, <<"-","a">>, <<"-","-","f","o","r","m","a","t">>, <<"{","{",".","N","a","m","e","s","}","}">>>>, w.ps)
      rm == Executed(<<"d","o","c","k","e","r">>, <<<<"r","m">>, <<"-","f">>, name>>, w.rm)
      run == Executed(<<"d","o","c","k","e","r">>, DaemonArgs(name, image, ports, w.portOrder, env, w.envOrder),
                      w.run)
      before == IF ContainerListed(w.psOutput, name) THEN <<list, rm>> ELSE <<list>>
  IN  IF RunError(w.ps) # Nil
      THEN [err |-> Wrap(<<"f","a","i","l","e","d"," ","t","o"," ","l","i","s","t"," ","c","o","n","t","a","i","n","e","r","s">>, RunError(w.ps)), events |-> <<list>>]
      ELSE IF RunError(w.run) # Nil
      THEN [err |-> Wrap(<<"d","o","c","k","e","r"," ","r","u","n"," ","f","a","i","l","e","d">>, RunError(w.run)), events |-> before \o <<run>>]
      ELSE [err |-> Nil, events |-> before \o <<run>>]

\* func RunDaemon(name, image string, ports map[string]string, env map[string]EnvVar) error
\* w: how `docker ps` ends and what it prints, how `docker rm` and
\* `docker run` end, and the orders in which the two maps are ranged over.
RunDaemon(name, image, ports, env, w) ==
  LET list == Executed(<<"d","o","c","k","e","r">>, <<<<"p","s">>, <<"-","a">>, <<"-","-","f","o","r","m","a","t">>, <<"{","{",".","N","a","m","e","s","}","}">>>>, w.ps)
      rm == Executed(<<"d","o","c","k","e","r">>, <<<<"r","m">>, <<"-","f">>, name>>, w.rm)
      run == Executed(<<"d","o","c","k","e","r">>, DaemonArgs(name, image, ports, w.portOrder, env, w.envOrder),
                      w.run)
      listed == ContainerListed(w.psOutput, name)
      before == IF listed THEN <<list, rm>> ELSE <<list>>
  IN  IF RunError(w.ps) # Nil
      THEN [err |-> Wrap(<<"f","a","i","l","e","d"," ","t","o"," ","l","i","s","t"," ","c","o","n","t","a","i","n","e","r","s">>, RunError(w.ps)), events |-> <<list>>]
      ELSE IF listed /\ RunError(w.rm) # Nil
      THEN [err |-> Wrap(<<"f","a","i","l","e","d"," ","t","o"," ","r","e","m","o","v","e"," ","e","x","i","s","t","i","n","g"," ","c","o","n","t","a","i","n","e","r">>, RunError(w.rm)),
            events |-> before]
      ELSE IF RunError(w.run) # Nil
      THEN [err |-> Wrap(<<"d","o","c","k","e","r"," ","r","u","n"," ","f","a","i","l","e","d">>, RunError(w.run)), events |-> before \o <<run>>]
      ELSE [err |-> Nil, events |-> before \o <<run>>]

\* main: if err := app.Run(os.Args); err != nil {
\*         fmt.Fprintf(os.Stderr, "Error: %v\n", err); os.Exit(1) }
\* the error of the command is a plain wrapped error, which app.Run hands
\* back to main; the exit status of the program is 1 for every error
MainErrorLine(err) == Printed("stderr", <<"E","r","r","o","r",":"," ">> \o ErrorText(err) \o <<"\n">>)
CliExitStatus(err) == IF err = Nil THEN 0 ELSE 1

\* the orders in which a small Go map (at most 8 entries, none deleted) is
\* ranged over: the runtime starts at a random slot and wraps around, so the
\* keys come in a rotation of the order in which they were inserted
MapOrders(slots) ==
  IF slots = <<>> THEN {<<>>}
  ELSE {[i \in 1..Len(slots) |-> slots[((i - 1 + k) % Len(slots)) + 1]] : k \in 0..(Len(slots) - 1)}

\* every order of a set of keys
Perms(S) == {p \in [1..Cardinality(S) -> S] : \A i, j \in 1..Cardinality(S) : i # j => p[i] # p[j]}

-----------------------------------------------------------------------------
(* bw_backup.go: getBackupPassword, runSingleBackup and backupVault        *)

BackupPasswordAccount == <<"b","i","t","w","a","r","d","e","n","_","b","a","c","k","u","p","_","p","a","s","s","w","o","r","d">>
BwClientIdVar == <<"B","W","_","C","L","I","E","N","T","I","D">>
BwClientSecretVar == <<"B","W","_","C","L","I","E","N","T","S","E","C","R","E","T">>
BwPasswordVar == <<"B","W","_","P","A","S","S","W","O","R","D">>
BwBackupPasswordVar == <<"B","W","_","B","A","C","K","U","P","_","P","A","S","S","W","O","R","D">>
BwProfileVar == <<"B","W","_","P","R","O","F","I","L","E">>
BwOrganizationIdVar == <<"B","W","_","O","R","G","A","N","I","Z","A","T","I","O","N","I","D">>
BackupImage == <<"g","h","c","r",".","i","o","/","v","u","p","h","a","m","9","0","/","c","o","n","t","a","i","n","e","r","s","-","b","w","-","b","a","c","k","u","p",":","l","a","t","e","s","t">>

\* func getBackupPassword(c *cli.Context, reset bool) (string, error)
\* isSet is c.IsSet("backup-password"), flagValue its value, encrypt is
\* c.Bool("encrypt")
getBackupPassword(store, isSet, flagValue, encrypt, reset, o) ==
  IF isSet
  THEN [store |-> store, value |-> flagValue, err |-> Nil, ops |-> <<>>, prompts |-> <<>>,
        out |-> <<>>]
  ELSE IF encrypt
  THEN GetOrSetPassword(store, BackupPasswordAccount, reset, o)
  ELSE [store |-> store, value |-> <<>>, err |-> Nil, ops |-> <<>>, prompts |-> <<>>,
        out |-> <<>>]

\* one entry of an env map literal or one assignment env[key] = EnvVar{...}
EnvEntry(key, value, sensitive) == [key |-> key, var |-> EnvVar(value, sensitive)]
\* the map made by a sequence of insertions, and its keys in insertion order
EnvOf(entries) ==
  [k \in {entries[i].key : i \in 1..Len(entries)} |->
     entries[CHOOSE i \in 1..Len(entries) : entries[i].key = k].var]
EnvSlots(entries) == [i \in 1..Len(entries) |-> entries[i].key]

\* env of runSingleBackup, lines 111-130
SingleBackupEntries(c, profile, orgID) ==
  << EnvEntry(BwClientIdVar, c.clientID, TRUE),
     EnvEntry(BwClientSecretVar, c.clientSecret, TRUE),
     EnvEntry(BwPasswordVar, c.password, TRUE) >>
    \o (IF c.backupPassword # <<>>
        THEN <<EnvEntry(BwBackupPasswordVar, c.backupPassword, TRUE)>> ELSE <<>>)
    \o (IF profile # <<>> THEN <<EnvEntry(BwProfileVar, profile, FALSE)>> ELSE <<>>)
    \o (IF orgID # <<>> THEN <<EnvEntry(BwOrganizationIdVar, orgID, FALSE)>> ELSE <<>>)

\* (mutant) the profile name is tagged as a secret
VaultEntriesProfileTagged(c, profile, orgID) ==
  << EnvEntry(BwClientIdVar, c.clientID, TRUE),
     EnvEntry(BwClientSecretVar, c.clientSecret, TRUE),
     EnvEntry(BwPasswordVar, c.password, TRUE),
     EnvEntry(BwProfileVar, profile, TRUE) >>
    \o (IF c.backupPassword # <<>>
        THEN <<EnvEntry(BwBackupPasswordVar, c.backupPassword, TRUE)>> ELSE <<>>)
    \o (IF orgID # <<>> THEN <<EnvEntry(BwOrganizationIdVar, orgID, FALSE)>> ELSE <<>>)

\* env of backupVault, lines 285-300
VaultEntries(c, profile, orgID) ==
  << EnvEntry(BwClientIdVar, c.clientID, TRUE),
     EnvEntry(BwClientSecretVar, c.clientSecret, TRUE),
     EnvEntry(BwPasswordVar, c.password, TRUE),
     EnvEntry(BwProfileVar, profile, FALSE) >>
    \o (IF c.backupPassword # <<>>
        THEN <<EnvEntry(BwBackupPasswordVar, c.backupPassword, TRUE)>> ELSE <<>>)
    \o (IF orgID # <<>> THEN <<EnvEntry(BwOrganizationIdVar, orgID, FALSE)>> ELSE <<>>)

BackupEntries(mode, c, profile, orgID) ==
  IF mode = "single" THEN SingleBackupEntries(c, profile, orgID)
  ELSE VaultEntries(c, profile, orgID)

\* tmpfsMounts, in the order of the map literal
TmpfsSlots == << <<"/","t","m","p">>, <<"/","r","o","o","t","/",".","c","o","n","f","i","g">>, <<"/","r","o","o","t","/",".","c","a","c","h","e">>, <<"/","r","o","o","t","/",".","l","o","c","a","l">> >>
TmpfsMounts ==
  (<<"/","t","m","p">> :> <<"r","w",",","n","o","e","x","e","c",",","n","o","s","u","i","d",",","s","i","z","e","=","1","0","0","m">>) @@
  (<<"/","r","o","o","t","/",".","c","o","n","f","i","g">> :> <<"r","w",",","n","o","e","x","e","c",",","n","o","s","u","i","d",",","s","i","z","e","=","5","0","m">>) @@
  (<<"/","r","o","o","t","/",".","c","a","c","h","e">> :> <<"r","w",",","n","o","e","x","e","c",",","n","o","s","u","i","d",",","s","i","z","e","=","5","0","m">>) @@
  (<<"/","r","o","o","t","/",".","l","o","c","a","l">> :> <<"r","w",",","n","o","e","x","e","c",",","n","o","s","u","i","d",",","s","i","z","e","=","5","0","m">>)
\* for path, opts := range tmpfsMounts { tmpfs = append(tmpfs, path+":"+opts) }
TmpfsList(order) == [i \in 1..Len(order) |-> order[i] \o <<":">> \o TmpfsMounts[order[i]]]

\* "profile=%s" (runSingleBackup) or "profile=%s organization=%s" (backupVault)
AuditFields(mode, profile, orgID) ==
  <<"p","r","o","f","i","l","e","=">> \o profile \o (IF mode = "vault" THEN <<" ","o","r","g","a","n","i","z","a","t","i","o","n","=">> \o orgID ELSE <<>>)
AuditStarted(mode, profile, orgID, time) ==
  Printed("stderr", <<"[","A","U","D","I","T","]"," ","B","i","t","w","a","r","d","e","n"," ","b","a","c","k","u","p"," ","s","t","a","r","t","e","d",":"," ">> \o AuditFields(mode, profile, orgID)
                      \o <<" ","t","i","m","e","=">> \o time \o <<"\n">>)
AuditCompleted(mode, profile, orgID, duration) ==
  Printed("stderr", <<"[","A","U","D","I","T","]"," ","B","i","t","w","a","r","d","e","n"," ","b","a","c","k","u","p"," ","c","o","m","p","l","e","t","e","d",":"," ">> \o AuditFields(mode, profile, orgID)
                      \o <<" ","d","u","r","a","t","i","o","n","=">> \o duration \o <<"\n">>)
AuditFailed(mode, profile, orgID, duration, err) ==
  Printed("stderr", <<"[","A","U","D","I","T","]"," ","B","i","t","w","a","r","d","e","n"," ","b","a","c","k","u","p"," ","f","a","i","l","e","d",":"," ">> \o AuditFields(mode, profile, orgID)
                      \o <<" ","d","u","r","a","t","i","o","n","=">> \o duration \o <<" ","e","r","r","o","r","=">> \o ErrorText(err) \o <<"\n">>)
AuditFinished(mode, profile, orgID, duration, err) ==
  IF err = Nil THEN AuditCompleted(mode, profile, orgID, duration)
  ELSE AuditFailed(mode, profile, orgID, duration, err)
StartingLine == Printed("stdout", <<"S","t","a","r","t","i","n","g"," ","B","i","t","w","a","r","d","e","n"," ","b","a","c","k","u","p",".",".",".">> \o <<"\n">>)

\* if len(backupDir) > 0 && backupDir[0] == '~' { home, err := os.UserHomeDir(); ...
\*   backupDir = filepath.Join(home, backupDir[1:]) }
ExpandHome(backupDir, homeOk) ==
  IF backupDir # <<>> /\ backupDir[1] = "~"
  THEN IF homeOk
       THEN [path |-> CleanPath(Home \o Slash \o Tail(backupDir)), err |-> Nil]
       ELSE [path |-> <<>>, err |-> Wrap(<<"f","a","i","l","e","d"," ","t","o"," ","g","e","t"," ","h","o","m","e"," ","d","i","r","e","c","t","o","r","y">>, <<<<"$","H","O","M","E"," ","i","s"," ","n","o","t"," ","d","e","f","i","n","e","d">>>>)]
  ELSE [path |-> backupDir, err |-> Nil]

\* runSingleBackup lines 99-108: resolve the backup directory and check it
SingleBackupDir(backupDir, cwdOk, stat) ==
  LET abs == Abs(backupDir, cwdOk)
  IN  IF abs.err # Nil
      THEN [path |-> <<>>, err |-> Wrap(<<"f","a","i","l","e","d"," ","t","o"," ","r","e","s","o","l","v","e"," ","b","a","c","k","u","p"," ","d","i","r","e","c","t","o","r","y">>, abs.err)]
      ELSE IF WorkDirMissing(stat)
      THEN [path |-> <<>>, err |-> <<<<"b","a","c","k","u","p"," ","d","i","r","e","c","t","o","r","y"," ","d","o","e","s"," ","n","o","t"," ","e","x","i","s","t",":"," ">> \o abs.path>>]
      ELSE [path |-> abs.path, err |-> Nil]

\* backupVault lines 264-283: expand, resolve and create the backup directory
VaultBackupDir(backupDir, homeOk, cwdOk, mkdirOk) ==
  LET exp == ExpandHome(backupDir, homeOk)
      abs == Abs(exp.path, cwdOk)
  IN  IF exp.err # Nil THEN [path |-> <<>>, err |-> exp.err]
      ELSE IF abs.err # Nil
      THEN [path |-> <<>>, err |-> Wrap(<<"f","a","i","l","e","d"," ","t","o"," ","r","e","s","o","l","v","e"," ","b","a","c","k","u","p"," ","d","i","r","e","c","t","o","r","y">>, abs.err)]
      ELSE IF ~mkdirOk
      THEN [path |-> <<>>,
            err |-> Wrap(<<"f","a","i","l","e","d"," ","t","o"," ","c","r","e","a","t","e"," ","b","a","c","k","u","p"," ","d","i","r","e","c","t","o","r","y">>,
                         <<<<"m","k","d","i","r"," ">> \o abs.path \o <<":"," ","p","e","r","m","i","s","s","i","o","n"," ","d","e","n","i","e","d">>>>)]
      ELSE [path |-> abs.path, err |-> Nil]

\* runSingleBackup returns a credential error as it is, backupVault wraps it
CredentialError(mode, what, err) ==
  IF mode = "vault" THEN Wrap(<<"f","a","i","l","e","d"," ","t","o"," ","g","e","t"," ">> \o what, err) ELSE err

-----------------------------------------------------------------------------
(* Each part of the program is exercised by a specification of its own;    *)
(* the variables of the other parts then rest at these values.             *)

SanIdle ==
  /\ sanPc = "idle"
  /\ sanHeap = <<>>
  /\ sanArgs = 0
  /\ sanEnv = <<>>
  /\ sanResult = 0
  /\ sanOriginal = <<>>
  /\ sanExec = <<>>

NoCall == [fn |-> "none"]

CredIdle ==
  /\ kcStore = EmptyStore
  /\ credPc = "idle"
  /\ credIn = NoCall
  /\ credOut = NoCall
  /\ credBefore = EmptyStore

RunIdle ==
  /\ runPc = "idle"
  /\ runIn = NoCall
  /\ runOut = NoCall

BkIdle ==
  /\ bkPc = "idle"
  /\ bkIn = NoCall
  /\ bkCreds = NoCall
  /\ bkDir = NoCall
  /\ bkErr = <<>>
  /\ bkEvents = <<>>

DmIdle ==
  /\ dmPc = "idle"
  /\ dmContainers = <<>>
  /\ dmCalls = <<>>

BtIdle ==
  /\ btPc = "idle"
  /\ btIn = NoCall
  /\ btI = 0
  /\ btJ = 0
  /\ btPassword = <<>>
  /\ btErrors = <<>>
  /\ btSuccess = 0
  /\ btEvents = <<>>
  /\ btErr = <<>>

-----------------------------------------------------------------------------
(* sanitizeDockerArgs on its own: the inputs of TestSanitizeDockerArgs      *)
(* generalised to every argv over a token set and every tagging of two     *)
(* variable names.  Environment variable names are non-empty and hold no   *)
(* "=" (docker splits NAME=VALUE at the first "=").                        *)

SanNames == {<<"K">>, <<"L">>}

\* tokens: the flag, a plain word, NAME=VALUE pairs with a plain value, an
\* empty value, a value holding "=", a value holding a space and "$", a
\* second name, a name that is in no env map, a name that extends K, and a
\* name without "=".
ArgTokens ==
  { DashE, <<"r","u","n">>, <<"K","=","s">>, <<"K","=">>, <<"K","=","s","=","t">>, <<"K","=","a"," ","$">>, <<"L","=","s">>, <<"U","=","s">>, <<"K","L","=","s">>, <<"K">> }

SanEnvs == UNION {[D -> {EnvVar(<<"s">>, b) : b \in BOOLEAN}] : D \in SUBSET SanNames}

\* TestSanitizeDockerArgs, "sensitive environment variable"
ScenarioBArgs == << <<"r","u","n">>, <<"-","-","r","m">>, DashE, <<"A","P","I","_","K","E","Y","=","s","e","c","r","e","t","1","2","3">>, <<"i","m","a","g","e">> >>
ScenarioBEnv == (<<"A","P","I","_","K","E","Y">> :> EnvVar(<<"s","e","c","r","e","t","1","2","3">>, TRUE))
ScenarioBExpected == << <<"r","u","n">>, <<"-","-","r","m">>, DashE, <<"A","P","I","_","K","E","Y","=","*","*","*","R","E","D","A","C","T","E","D","*","*","*">>, <<"i","m","a","g","e">> >>

SanInputs ==
  {[args |-> a, env |-> e] : a \in SeqsUpTo(ArgTokens, MaxArgs), e \in SanEnvs}
    \cup {[args |-> ScenarioBArgs, env |-> ScenarioBEnv]}

SanInit ==
  \E in \in SanInputs :
    /\ sanPc = "init"
    /\ sanHeap = (1 :> in.args)
    /\ sanArgs = 1
    /\ sanEnv = in.env
    /\ sanResult = 0
    /\ sanOriginal = in.args
    /\ sanExec = <<>>

\* result := sanitizeDockerArgs(args, env)
SanCall ==
  /\ sanPc = "init"
  /\ \E out \in sanitizeDockerArgs(sanHeap, sanArgs, sanEnv) :
       /\ sanHeap' = out.heap
       /\ sanResult' = out.result
  /\ sanPc' = "returned"
  /\ UNCHANGED <<sanArgs, sanEnv, sanOriginal, sanExec>>
  /\ UNCHANGED <<credVars, runVars, bkVars>>
  /\ UNCHANGED <<dmVars, btVars>>

\* the caller goes on to use its own argv: exec.Command("docker", dockerArgs...)
SanUse ==
  /\ sanPc = "returned"
  /\ sanExec' = sanHeap[sanArgs]
  /\ sanPc' = "used"
  /\ UNCHANGED <<sanHeap, sanArgs, sanEnv, sanResult, sanOriginal>>
  /\ UNCHANGED <<credVars, runVars, bkVars>>
  /\ UNCHANGED <<dmVars, btVars>>

SanNext == SanCall \/ SanUse

SanitizeInit == SanInit /\ CredIdle /\ RunIdle /\ BkIdle /\ DmIdle /\ BtIdle

SpecSanitize == SanitizeInit /\ [][SanNext]_vars

-----------------------------------------------------------------------------
(* getCredential called once on a keychain that holds passwords the        *)
(* program stored earlier.                                                 *)

\* --profile values: none, or a profile name
Profiles == {<<>>, <<"Q">>}
\* values of --client-id / --client-secret / --password: not given, or given
FlagValues == {<<>>, <<"Q">>}
\* lines the user may type at a prompt: a plain one, one with surrounding blanks
TypedLines == {<<"j">>, <<" ","q"," ">>}
CredentialAccounts == {BitwardenClientId, BitwardenClientSecret, BitwardenPassword}

\* what the environment may do during one call
KcOutcomes ==
  [existsOk : BOOLEAN, deleteOk : BOOLEAN, getOk : BOOLEAN, setOk : BOOLEAN,
   promptOk : BOOLEAN, typed : TypedLines]

\* what setPassword can have stored: trimmed typed lines
StoredValues == {TrimSpace(l \o <<"\n">>) : l \in TypedLines}
AllAccounts == {AccountFor(a, p) : a \in CredentialAccounts, p \in Profiles}
InitStores ==
  UNION {[D -> StoredValues] : D \in {X \in SUBSET AllAccounts : Cardinality(X) <= MaxStored}}

CredInit ==
  /\ kcStore \in InitStores
  /\ credPc = "init"
  /\ credIn = NoCall
  /\ credOut = NoCall
  /\ credBefore = kcStore

\* value, err := getCredential(flagValue, keychainAccount, profile, reset)
CallGetCredential ==
  /\ credPc = "init"
  /\ \E flagValue \in FlagValues, keychainAccount \in CredentialAccounts,
        profile \in Profiles, reset \in BOOLEAN, o \in KcOutcomes :
       LET r == getCredential(kcStore, flagValue, keychainAccount, profile, reset, o)
       IN  /\ kcStore' = r.store
           /\ credIn' = [fn |-> "getCredential", flagValue |-> flagValue,
                         keychainAccount |-> keychainAccount, profile |-> profile,
                         reset |-> reset,
                         promptOk |-> r.prompts # <<>> /\ o.promptOk,
                         typed |-> IF r.prompts # <<>> /\ o.promptOk THEN o.typed ELSE <<>>]
           /\ credOut' = [value |-> r.value, err |-> r.err, ops |-> r.ops,
                          prompts |-> r.prompts, out |-> r.out]
  /\ credBefore' = kcStore
  /\ credPc' = "returned"
  /\ UNCHANGED <<sanVars, runVars, bkVars>>
  /\ UNCHANGED <<dmVars, btVars>>

CredNext == CallGetCredential

CredentialInit == CredInit /\ SanIdle /\ RunIdle /\ BkIdle /\ DmIdle /\ BtIdle

SpecCred == CredentialInit /\ [][CredNext]_vars

-----------------------------------------------------------------------------
(* The commands: RunContainer and RunDaemon called directly, and one backup *)
(* job (runSingleBackup, or backupVault as runBatchBackup calls it), which *)
(* resolves its credentials one by one, then its directory, then runs the  *)
(* container.                                                              *)

\* environment variable names and values of the direct calls; SecretValue
\* occurs in no fixed text of a log line
RunNames == {<<"K">>, <<"L">>}
SecretValue == <<"Q">>
RunEnvs ==
  UNION {[D -> {EnvVar(v, b) : v \in {<<>>, SecretValue}, b \in BOOLEAN}] : D \in SUBSET RunNames}
RunArgTokens == {DashE, <<"K","=","Q">>, SecretValue}
RunImages == {<<"i","m","g">>}
RunWorkDirs == {<<"/","d">>, <<"d">>}
RunTmpfs == {<<>>, <<<<"/","t",":","r","w">>>>}
DaemonNames == {<<"g","w">>}
\* what `docker ps -a --format {{.Names}}` prints: nothing, the name alone
\* without and with its newline, the name among others
PsOutputs(name) == {<<>>, name, name \o <<"\n">>, <<"o","t","h","e","r">> \o <<"\n">> \o name \o <<"\n">>}
\* the ibgateway port map, in the order of the literal
DaemonPortSlots == <<<<"4","0","0","1">>, <<"4","0","0","2">>>>
DaemonPorts == (<<"4","0","0","1">> :> <<"4","0","0","3">>) @@ (<<"4","0","0","2">> :> <<"4","0","0","4">>)

RunInit ==
  /\ runPc = "init"
  /\ runIn = NoCall
  /\ runOut = NoCall

\* err := RunContainer(image, workDir, args, env, tmpfs, removeContainer)
CallRunContainer ==
  /\ runPc = "init"
  /\ \E image \in RunImages, workDir \in RunWorkDirs,
        args \in SeqsUpTo(RunArgTokens, MaxRunArgs), env \in RunEnvs,
        tmpfs \in RunTmpfs, removeContainer \in BOOLEAN,
        cwdOk \in BOOLEAN, stat \in StatOutcomes, run \in RunOutcomes :
       \E envOrder \in Perms(DOMAIN env) :
         LET w == [cwdOk |-> cwdOk, stat |-> stat, envOrder |-> envOrder, run |-> run]
         IN  \E r \in RunContainer(image, workDir, args, env, tmpfs, removeContainer, w) :
               /\ runIn' = [fn |-> "RunContainer", image |-> image, workDir |-> workDir,
                            args |-> args, env |-> env, tmpfs |-> tmpfs,
                            removeContainer |-> removeContainer, w |-> w]
               /\ runOut' = r
  /\ runPc' = "returned"
  /\ UNCHANGED <<sanVars, credVars, bkVars>>
  /\ UNCHANGED <<dmVars, btVars>>

\* err := RunDaemon(name, image, ports, env)
CallRunDaemon ==
  /\ runPc = "init"
  /\ \E name \in DaemonNames, image \in RunImages, env \in RunEnvs,
        ps \in RunOutcomes, rm \in RunOutcomes, run \in RunOutcomes :
       \E psOutput \in PsOutputs(name), portOrder \in MapOrders(DaemonPortSlots),
          envOrder \in Perms(DOMAIN env) :
         LET w == [ps |-> ps, psOutput |-> IF ps = "exit0" THEN psOutput ELSE <<>>,
                   rm |-> rm, run |-> run, portOrder |-> portOrder, envOrder |-> envOrder]
         IN  /\ runIn' = [fn |-> "RunDaemon", name |-> name, image |-> image,
                          ports |-> DaemonPorts, env |-> env, w |-> w]
             /\ runOut' = RunDaemon(name, image, DaemonPorts, env, w)
  /\ runPc' = "returned"
  /\ UNCHANGED <<sanVars, credVars, bkVars>>
  /\ UNCHANGED <<dmVars, btVars>>

\* --organization-id: none, or an id
OrgIds == {<<>>, <<"X">>}
\* --backup-dir / backup_dir: relative, under the home directory
SingleBackupDirs == {<<"b">>}
VaultBackupDirs == {<<"~","/","b">>, <<"b">>}
\* time.Now().Format(time.RFC3339) and time.Since(startTime)
StartTimes == {<<"2","0","2","5","-","1","2","-","2","9","T","1","4",":","3","0",":","2","2","Z">>}
Durations == {<<"1",".","5","s">>}
\* the accounts a backup job of a profile can address
BackupAccounts(profile) ==
  {AccountFor(a, profile) : a \in CredentialAccounts} \cup {BackupPasswordAccount}
\* the profiles whose credentials the keychain may hold: none, Q, and one
\* whose name starts like Q
StoredProfiles == Profiles \cup {<<"Q","Q">>}
\* the accounts of the other profiles
ForeignAccounts(profile) ==
  {AccountFor(a, p) : a \in CredentialAccounts, p \in StoredProfiles \ {profile}}
\* the keychain before a backup job: nothing stored yet, or every account
\* of the profile (as j), of the other profiles (as J) and the backup
\* password stored by earlier runs
BackupStores(profile) ==
  {EmptyStore,
   [a \in BackupAccounts(profile) \cup ForeignAccounts(profile) |->
      IF a \in BackupAccounts(profile) THEN <<"j">> ELSE <<"J">>]}
\* during a backup job the user types one line at each prompt
BackupOutcomes == {o \in KcOutcomes : o.typed = <<" ","q"," ">>}
\* how the backup container ends
BackupRunOutcomes == {"exit0", "exit1", "exit2"}
NoCredentials ==
  [clientID |-> <<>>, clientSecret |-> <<>>, password |-> <<>>, backupPassword |-> <<>>]

BkInit ==
  \E mode \in {"single", "vault"}, profile \in Profiles, reset \in BOOLEAN,
     flagValue \in FlagValues, backupPassword \in FlagValues :
    /\ bkIn = [mode |-> mode, profile |-> profile, reset |-> reset,
               \* --client-id, --client-secret and --password are given together
               \* or not at all; backupVault passes "" for each
               flagValue |-> IF mode = "single" THEN flagValue ELSE <<>>,
               \* backupVault is handed the backup password by its caller
               backupPassword |-> IF mode = "vault" THEN backupPassword ELSE <<>>]
    /\ kcStore \in BackupStores(profile)
    /\ bkPc = "clientId"
    /\ bkCreds = [NoCredentials EXCEPT !.backupPassword = bkIn.backupPassword]
    /\ bkDir = [path |-> <<>>, stat |-> "none"]
    /\ bkErr = Nil
    /\ bkEvents = <<>>
    /\ credPc = "idle"
    /\ credIn = NoCall
    /\ credOut = NoCall
    /\ credBefore = kcStore

\* the record of a keychain-backed call, as CallGetCredential keeps it
CallRecord(fn, flagValue, keychainAccount, profile, reset, r, o) ==
  [fn |-> fn, flagValue |-> flagValue, keychainAccount |-> keychainAccount,
   profile |-> profile, reset |-> reset,
   promptOk |-> r.prompts # <<>> /\ o.promptOk,
   typed |-> IF r.prompts # <<>> /\ o.promptOk THEN o.typed ELSE <<>>]
ResultRecord(r) ==
  [value |-> r.value, err |-> r.err, ops |-> r.ops, prompts |-> r.prompts, out |-> r.out]
PrintedAll(out) == [i \in 1..Len(out) |-> Printed("stdout", out[i])]

\* x, err := getCredential(flag, keychainAccount, profile, reset)
\* if err != nil { return err }      (backupVault: return fmt.Errorf("failed to get ...: %w", err))
BkCredential(next, keychainAccount, field, what) ==
  /\ \E o \in BackupOutcomes :
       LET r == getCredential(kcStore, bkIn.flagValue, keychainAccount, bkIn.profile,
                              bkIn.reset, o)
       IN  /\ kcStore' = r.store
           /\ credIn' = CallRecord("getCredential", bkIn.flagValue, keychainAccount,
                                   bkIn.profile, bkIn.reset, r, o)
           /\ credOut' = ResultRecord(r)
           /\ bkEvents' = bkEvents \o PrintedAll(r.out)
           /\ IF r.err # Nil
              THEN /\ bkErr' = CredentialError(bkIn.mode, what, r.err)
                   /\ bkPc' = "done"
                   /\ UNCHANGED bkCreds
              ELSE /\ bkCreds' = [bkCreds EXCEPT ![field] = r.value]
                   /\ bkPc' = next
                   /\ UNCHANGED bkErr
  /\ credBefore' = kcStore
  /\ UNCHANGED <<sanVars, runVars, credPc, bkIn, bkDir>>
  /\ UNCHANGED <<dmVars, btVars>>

\* clientID, err := getCredential(c.String("client-id"), "bitwarden_client_id", profile, reset)
BkClientId ==
  /\ bkPc = "clientId"
  /\ BkCredential("clientSecret", BitwardenClientId, "clientID", <<"c","l","i","e","n","t"," ","I","D">>)

\* clientSecret, err := getCredential(c.String("client-secret"), "bitwarden_client_secret", ...)
BkClientSecret ==
  /\ bkPc = "clientSecret"
  /\ BkCredential("password", BitwardenClientSecret, "clientSecret", <<"c","l","i","e","n","t"," ","s","e","c","r","e","t">>)

\* password, err := getCredential(c.String("password"), "bitwarden_password", profile, reset)
BkPassword ==
  /\ bkPc = "password"
  /\ BkCredential(IF bkIn.mode = "single" THEN "backupPassword" ELSE "dir",
                  BitwardenPassword, "password", <<"p","a","s","s","w","o","r","d">>)

\* backupPassword, err := getBackupPassword(c, reset)     (runSingleBackup)
BkBackupPassword ==
  /\ bkPc = "backupPassword"
  /\ \E isSet \in BOOLEAN, flagValue \in FlagValues, encrypt \in BOOLEAN, o \in BackupOutcomes :
       /\ (~isSet => flagValue = <<>>)
       /\ LET r == getBackupPassword(kcStore, isSet, flagValue, encrypt, bkIn.reset, o)
          IN  /\ kcStore' = r.store
              /\ credIn' = [CallRecord("getBackupPassword", flagValue, BackupPasswordAccount,
                                       <<>>, bkIn.reset, r, o)
                              EXCEPT !.fn = IF isSet THEN "getBackupPassword:flag"
                                            ELSE IF encrypt THEN "getBackupPassword:encrypt"
                                            ELSE "getBackupPassword:none"]
              /\ credOut' = ResultRecord(r)
              /\ bkEvents' = bkEvents \o PrintedAll(r.out)
              /\ IF r.err # Nil
                 THEN /\ bkErr' = r.err
                      /\ bkPc' = "done"
                      /\ UNCHANGED bkCreds
                 ELSE /\ bkCreds' = [bkCreds EXCEPT !.backupPassword = r.value]
                      /\ bkPc' = "dir"
                      /\ UNCHANGED bkErr
  /\ credBefore' = kcStore
  /\ UNCHANGED <<sanVars, runVars, credPc, bkIn, bkDir>>
  /\ UNCHANGED <<dmVars, btVars>>

\* the backup directory is resolved and checked (runSingleBackup) or created
\* (backupVault); the directory is not touched by others while the job runs
BkResolveDir ==
  /\ bkPc = "dir"
  /\ \E cwdOk \in BOOLEAN, homeOk \in BOOLEAN, stat \in StatOutcomes, mkdirOk \in BOOLEAN :
       \E backupDir \in (IF bkIn.mode = "single" THEN SingleBackupDirs ELSE VaultBackupDirs) :
         LET d == IF bkIn.mode = "single" THEN SingleBackupDir(backupDir, cwdOk, stat)
                  ELSE VaultBackupDir(backupDir, homeOk, cwdOk, mkdirOk)
         IN  IF d.err # Nil
             THEN /\ bkErr' = d.err
                  /\ bkPc' = "done"
                  /\ UNCHANGED bkDir
             ELSE /\ bkDir' = [path |-> d.path,
                               stat |-> IF bkIn.mode = "single" THEN stat ELSE "ok"]
                  /\ bkPc' = "launch"
                  /\ UNCHANGED bkErr
  \* the credential calls are over
  /\ credIn' = NoCall
  /\ credOut' = NoCall
  /\ credBefore' = kcStore
  /\ UNCHANGED <<sanVars, runVars, kcStore, credPc, bkIn, bkCreds, bkEvents>>
  /\ UNCHANGED <<dmVars, btVars>>

\* the env map and the tmpfs list are built, the start is logged, the
\* container is run and the end is logged
BkLaunch ==
  /\ bkPc = "launch"
  /\ \E orgID \in OrgIds, time \in StartTimes, duration \in Durations, run \in BackupRunOutcomes,
        tmpfsOrder \in MapOrders(TmpfsSlots) :
       LET entries == BackupEntries(bkIn.mode, bkCreds, bkIn.profile, orgID)
           env == EnvOf(entries)
           tmpfs == TmpfsList(tmpfsOrder)
       IN  \E envOrder \in MapOrders(EnvSlots(entries)) :
             LET w == [cwdOk |-> TRUE, stat |-> bkDir.stat, envOrder |-> envOrder, run |-> run]
             IN  \E r \in RunContainer(BackupImage, bkDir.path, <<>>, env, tmpfs, TRUE, w) :
                   /\ runIn' = [fn |-> "RunContainer", image |-> BackupImage,
                                workDir |-> bkDir.path, args |-> <<>>, env |-> env,
                                tmpfs |-> tmpfs, removeContainer |-> TRUE, w |-> w,
                                \* --organization-id, or the orgID handed to backupVault
                                orgID |-> orgID]
                   /\ runOut' = r
                   /\ bkErr' = r.err
                   /\ bkEvents' =
                        bkEvents
                          \o <<AuditStarted(bkIn.mode, bkIn.profile, orgID, time)>>
                          \o (IF bkIn.mode = "single" THEN <<StartingLine>> ELSE <<>>)
                          \o r.events
                          \o <<AuditFinished(bkIn.mode, bkIn.profile, orgID, duration, r.err)>>
  /\ runPc' = "returned"
  /\ bkPc' = "done"
  /\ UNCHANGED <<sanVars, credVars, bkIn, bkCreds, bkDir>>
  /\ UNCHANGED <<dmVars, btVars>>

JobsNext ==
  \/ CallRunContainer
  \/ CallRunDaemon
  \/ BkClientId
  \/ BkClientSecret
  \/ BkPassword
  \/ BkBackupPassword
  \/ BkResolveDir
  \/ BkLaunch

\* either a direct call or a backup job
JobsInit ==
  /\ SanIdle
  /\ DmIdle
  /\ BtIdle
  /\ \/ RunInit /\ CredIdle /\ BkIdle
     \/ RunIdle /\ BkInit

SpecJobs == JobsInit /\ [][JobsNext]_vars

-----------------------------------------------------------------------------
(* The ibgateway command called several times in a row against one docker  *)
(* runtime, which names each container once: `docker ps` lists the names,  *)
(* one per line, `docker rm -f` removes a container and `docker run        *)
(* --name` refuses a name that is in use.                                   *)

\* how many times the command is called
MaxDaemonCalls == 2

\* --user, --password and --mode of the ibgateway command
IbUser == <<"u">>
IbPassword == SecretValue
IbModes == {<<"p","a","p","e","r">>, <<"l","i","v","e">>, <<"x">>}
\* the env map of the command, in the order of the literal
IbEnvSlots == <<<<"T","W","S","_","U","S","E","R","I","D">>, <<"T","W","S","_","P","A","S","S","W","O","R","D">>, <<"T","R","A","D","I","N","G","_","M","O","D","E">>>>
IbEnv(user, password, mode) ==
  (<<"T","W","S","_","U","S","E","R","I","D">> :> EnvVar(user, TRUE)) @@ (<<"T","W","S","_","P","A","S","S","W","O","R","D">> :> EnvVar(password, TRUE))
    @@ (<<"T","R","A","D","I","N","G","_","M","O","D","E">> :> EnvVar(mode, FALSE))
IbStartingLine(name, mode) ==
  Printed("stdout", <<"S","t","a","r","t","i","n","g"," ","I","B"," ","G","a","t","e","w","a","y"," ","c","o","n","t","a","i","n","e","r"," ","'">> \o name \o <<"'"," ","i","n"," ">> \o mode
                      \o <<" ","m","o","d","e",".",".",".">> \o <<"\n">>)

\* Action of the ibgateway command
IbGateway(user, password, mode, image, name, w) ==
  IF mode # <<"p","a","p","e","r">> /\ mode # <<"l","i","v","e">>
  THEN [err |-> <<<<"i","n","v","a","l","i","d"," ","t","r","a","d","i","n","g"," ","m","o","d","e",":"," ">> \o mode \o <<" ","(","m","u","s","t"," ","b","e"," ","'","p","a","p","e","r","'"," ","o","r"," ","'","l","i","v","e","'",")">>>>,
        events |-> <<>>]
  ELSE LET r == RunDaemon(name, image, DaemonPorts, IbEnv(user, password, mode), w)
       IN  [err |-> r.err, events |-> <<IbStartingLine(name, mode)>> \o r.events]

\* what `docker ps -a --format {{.Names}}` prints: every name and a newline
RECURSIVE Listing(_)
Listing(containers) ==
  IF containers = <<>> THEN <<>>
  ELSE Head(containers).name \o <<"\n">> \o Listing(Tail(containers))

HasContainer(containers, name) == \E i \in 1..Len(containers) : containers[i].name = name

\* the answers of the runtime; ok is FALSE when the docker daemon cannot be
\* reached by that command
DockerPs(containers, ok) ==
  IF ok THEN [outcome |-> "exit0", output |-> Listing(containers)]
  ELSE [outcome |-> "exit1", output |-> <<>>]
DockerRm(containers, name, ok) ==
  IF ok THEN [outcome |-> "exit0",
              containers |-> SelectSeq(containers, LAMBDA c : c.name # name)]
  ELSE [outcome |-> "exit1", containers |-> containers]
DockerRun(containers, name, id, ok) ==
  IF ok /\ ~HasContainer(containers, name)
  THEN [outcome |-> "exit0", containers |-> <<[name |-> name, id |-> id]>> \o containers]
  ELSE [outcome |-> "exit125", containers |-> containers]

\* the command of a docker process: ps, rm or run
Verb(event) == event.argv[2]
Issued(events, verb) ==
  \E i \in 1..Len(events) : events[i].kind = "exec" /\ Verb(events[i]) = verb

\* the step of a call at which the docker daemon cannot be reached
DockerFailures == {"none", "ps", "run"}
\* the containers that exist before the first call
OtherContainer == [name |-> <<"o","t","h","e","r">>, id |-> 1]
StaleContainer == [name |-> <<"g","w">>, id |-> 2]
InitContainers == {<<>>, <<OtherContainer>>, <<StaleContainer, OtherContainer>>}

DaemonInit ==
  /\ dmPc = "ready"
  /\ dmContainers \in InitContainers
  /\ dmCalls = <<>>
  /\ SanIdle /\ CredIdle /\ RunIdle /\ BkIdle /\ BtIdle

\* containers ibgateway --user u --password Q --mode mode --image img --name name
CallIbGateway ==
  /\ dmPc = "ready"
  /\ Len(dmCalls) < MaxDaemonCalls
  /\ \E name \in DaemonNames, mode \in IbModes, image \in RunImages, fail \in DockerFailures,
        portOrder \in MapOrders(DaemonPortSlots), envOrder \in MapOrders(IbEnvSlots) :
       LET id == 3 + Len(dmCalls)
           ps == DockerPs(dmContainers, fail # "ps")
           rm == DockerRm(dmContainers, name, fail # "rm")
           \* whether the call gets as far as removing is decided by the code
           probe == [ps |-> ps.outcome, psOutput |-> ps.output, rm |-> rm.outcome,
                     run |-> "exit0", portOrder |-> portOrder, envOrder |-> envOrder]
           removed ==
             /\ Issued(IbGateway(IbUser, IbPassword, mode, image, name, probe).events, <<"r","m">>)
             /\ rm.outcome = "exit0"
           run == DockerRun(IF removed THEN rm.containers ELSE dmContainers, name, id,
                            fail # "run")
           w == [probe EXCEPT !.run = run.outcome]
           r == IbGateway(IbUser, IbPassword, mode, image, name, w)
           after == IF Issued(r.events, <<"r","u","n">>) THEN run.containers
                    ELSE IF removed THEN rm.containers
                    ELSE dmContainers
       IN  /\ dmCalls' = Append(dmCalls, [name |-> name, mode |-> mode, fail |-> fail,
                                           err |-> r.err,
                                           events |-> r.events, before |-> dmContainers,
                                           after |-> after])
           /\ dmContainers' = after
  /\ UNCHANGED <<dmPc, sanVars, credVars, runVars, bkVars, btVars>>

DaemonNext == CallIbGateway

SpecDaemon == DaemonInit /\ [][DaemonNext]_vars

-----------------------------------------------------------------------------
(* runBatchBackup: the config file is read, the backup password is         *)
(* resolved, then every profile is processed in turn: its personal vault   *)
(* and each of its organizations are handed to backupVault.  Of a job the  *)
(* batch uses the returned error only, so a job is taken here as one step  *)
(* that either succeeds or fails.                                           *)

\* longest list of profiles in the config file
MaxProfiles == 2
MaxJobs == 4

\* strconv of a non-negative int, as %d prints it
Digits == <<"0", "1", "2", "3", "4", "5", "6", "7", "8", "9">>
RECURSIVE Itoa(_)
Itoa(n) == IF n < 10 THEN <<Digits[n + 1]>> ELSE Itoa(n \div 10) \o <<Digits[(n % 10) + 1]>>

\* the runes U+2717, U+2713 and U+2192 of the progress lines, each taken
\* as one character
CrossMark == <<"U+2717">>
CheckMark == <<"U+2713">>
Arrow == <<"U+2192">>

\* the profiles a config file can hold: BackupProfile{Name, BackupDir, Organizations}
BatchOrgLists == {<<>>, <<<<"X">>>>, <<<<"X">>, <<"Y">>>>}
BatchProfiles ==
  {[Name |-> <<"P">>, BackupDir |-> <<"b">>, Organizations |-> orgs] : orgs \in BatchOrgLists}
\* the profiles of a config file have different names: the first is P
BatchNames == <<<<"P">>, <<"R">>, <<"S">>, <<"T">>>>
\* the number of jobs a list of profiles asks for
RECURSIVE TotalJobs(_)
TotalJobs(profiles) ==
  IF profiles = <<>> THEN 0
  ELSE 1 + Len(Head(profiles).Organizations) + TotalJobs(Tail(profiles))
\* config files of at most MaxProfiles profiles and MaxJobs jobs
BatchConfigs ==
  {[i \in 1..Len(c) |-> [c[i] EXCEPT !.Name = BatchNames[i]]] :
     c \in {l \in SeqsUpTo(BatchProfiles, MaxProfiles) : TotalJobs(l) <= MaxJobs}}
BatchConfigPath == <<"~","/","c">>
\* os.UserHomeDir, os.ReadFile and yaml.Unmarshal: which of them fails
ReadOutcomes == {"ok", "nohome", "unreadable", "badyaml"}
\* --backup-password, --encrypt and --reset of a batch
BatchFlags ==
  {[isSet |-> TRUE, flagValue |-> <<"Q">>, encrypt |-> FALSE, reset |-> FALSE],
   [isSet |-> FALSE, flagValue |-> <<>>, encrypt |-> FALSE, reset |-> FALSE],
   [isSet |-> FALSE, flagValue |-> <<>>, encrypt |-> TRUE, reset |-> FALSE],
   [isSet |-> FALSE, flagValue |-> <<>>, encrypt |-> TRUE, reset |-> TRUE]}
\* what makes a job of the batch fail, when one fails: the keychain and the
\* terminal cannot be read, or the container exits with 2
JobFailures == {"credential", "container"}
BatchInputs ==
  {[configPath |-> BatchConfigPath, read |-> read, profiles |-> <<>>, flags |-> flags,
    failure |-> failure] :
     read \in ReadOutcomes \ {"ok"},
     flags \in {f \in BatchFlags : ~f.isSet /\ ~f.encrypt},
     failure \in {"container"}}
    \cup
  {[configPath |-> BatchConfigPath, read |-> "ok", profiles |-> profiles, flags |-> flags,
    failure |-> failure] :
     profiles \in BatchConfigs, flags \in BatchFlags, failure \in JobFailures}

\* os.ReadFile and yaml.Unmarshal of the config file
ReadConfig(path, read, profiles) ==
  CASE read = "unreadable" ->
         [profiles |-> <<>>,
          err |-> Wrap(<<"f","a","i","l","e","d"," ","t","o"," ","r","e","a","d"," ","c","o","n","f","i","g"," ","f","i","l","e">>,
                       <<<<"o","p","e","n"," ">> \o path \o <<":"," ","n","o"," ","s","u","c","h"," ","f","i","l","e"," ","o","r"," ","d","i","r","e","c","t","o","r","y">>>>)]
    [] read = "badyaml" ->
         [profiles |-> <<>>,
          err |-> Wrap(<<"f","a","i","l","e","d"," ","t","o"," ","p","a","r","s","e"," ","Y","A","M","L"," ","c","o","n","f","i","g">>, <<<<"y","a","m","l",":"," ","u","n","m","a","r","s","h","a","l"," ","e","r","r","o","r","s">>>>)]
    [] OTHER -> [profiles |-> profiles, err |-> Nil]

BatchStartingLine(n) ==
  Printed("stdout", <<"S","t","a","r","t","i","n","g"," ","b","a","t","c","h"," ","b","a","c","k","u","p"," ","f","o","r"," ">> \o Itoa(n) \o <<" ","p","r","o","f","i","l","e","(","s",")",".",".",".">> \o <<"\n", "\n">>)
ProcessingLine(i, n, name) ==
  Printed("stdout", <<"[">> \o Itoa(i) \o <<"/">> \o Itoa(n) \o <<"]"," ","P","r","o","c","e","s","s","i","n","g"," ","p","r","o","f","i","l","e",":"," ">> \o name
                      \o <<"\n">>)
OrganizationLine(orgID) ==
  Printed("stdout", <<" "," ">> \o Arrow \o <<" ","B","a","c","k","i","n","g"," ","u","p"," ","o","r","g","a","n","i","z","a","t","i","o","n",":"," ">> \o orgID \o <<"\n">>)
\* the line after a job: indent is "  " for the personal vault and "    "
\* for an organization, what is "Personal vault" or "Organization"
JobResultLine(indent, what, err) ==
  Printed("stdout",
          IF err = Nil
          THEN indent \o CheckMark \o <<" ">> \o what \o <<" ","b","a","c","k","u","p"," ","c","o","m","p","l","e","t","e","d">> \o <<"\n">>
          ELSE indent \o CrossMark \o <<" ">> \o what \o <<" ","b","a","c","k","u","p"," ","f","a","i","l","e","d",":"," ">> \o ErrorText(err)
                 \o <<"\n">>)
\* the entries of errors
\* (mutant) the entry of an organization does not name the organization
OrganizationErrorWithoutOrg(name, orgID, err) ==
  <<"P","r","o","f","i","l","e"," ","'">> \o name \o <<"'"," ","p","e","r","s","o","n","a","l"," ","v","a","u","l","t",":"," ">> \o ErrorText(err)

PersonalVaultError(name, err) ==
  <<"P","r","o","f","i","l","e"," ","'">> \o name \o <<"'"," ","p","e","r","s","o","n","a","l"," ","v","a","u","l","t",":"," ">> \o ErrorText(err)
OrganizationError(name, orgID, err) ==
  <<"P","r","o","f","i","l","e"," ","'">> \o name \o <<"'"," ","o","r","g"," ","'">> \o orgID \o <<"'",":"," ">> \o ErrorText(err)
SummaryLine(successCount, failed) ==
  Printed("stdout", <<"B","a","t","c","h"," ","b","a","c","k","u","p"," ","c","o","m","p","l","e","t","e","d",":"," ">> \o Itoa(successCount) \o <<" ","s","u","c","c","e","s","s","f","u","l",","," ">>
                      \o Itoa(failed) \o <<" ","f","a","i","l","e","d">> \o <<"\n">>)
RECURSIVE ErrorLines(_)
ErrorLines(errors) ==
  IF errors = <<>> THEN <<>>
  ELSE <<Printed("stdout", <<" "," ","-"," ">> \o Head(errors) \o <<"\n">>)>> \o ErrorLines(Tail(errors))
\* (mutant) the error does not state the number
BatchErrorWithoutCount(failed) == <<<<"b","a","t","c","h"," ","b","a","c","k","u","p"," ","c","o","m","p","l","e","t","e","d"," ","w","i","t","h"," ","e","r","r","o","r","s">>>>

BatchError(failed) == <<<<"b","a","t","c","h"," ","b","a","c","k","u","p"," ","c","o","m","p","l","e","t","e","d"," ","w","i","t","h"," ">> \o Itoa(failed) \o <<" ","e","r","r","o","r","(","s",")">>>>

\* backupVault(c, profile, orgID, reset, backupPassword) was called and
\* returned err
Attempted(i, profile, orgID, backupPassword, err) ==
  [kind |-> "job", index |-> i, profile |-> profile.Name, orgID |-> orgID,
   backupPassword |-> backupPassword, err |-> err]
\* the jobs attempted so far
BatchJobs == SelectSeq(btEvents, LAMBDA e : e.kind = "job")
PrintedAllTo(stream, texts) == [k \in 1..Len(texts) |-> Printed(stream, texts[k])]

\* the `security` commands a keychain call ran and the lines it read from
\* the terminal, then what it printed
Consulted(ops) ==
  [k \in 1..Len(ops) |->
     [kind |-> "keychain", op |-> ops[k].op, account |-> ops[k].account, ok |-> ops[k].ok]]
Prompted(prompts) ==
  [k \in 1..Len(prompts) |->
     [kind |-> "prompt", text |-> prompts[k].text, account |-> prompts[k].account]]
CallEvents(r) == Consulted(r.ops) \o Prompted(r.prompts) \o PrintedAllTo("stdout", r.out)

\* the k-th order in which a map is ranged over
MapOrderAt(slots, k) ==
  IF slots = <<>> THEN <<>>
  ELSE [i \in 1..Len(slots) |-> slots[((i - 1 + k) % Len(slots)) + 1]]

\* func backupVault(_ *cli.Context, profile BackupProfile, orgID string, reset bool,
\*                  backupPassword string) error
\* w is what the environment does during the call: o the keychain and the
\* terminal, homeOk, cwdOk and mkdirOk the file system, order the map
\* orders, run the end of the container, time and duration the clock.
\* Yields the store after the call, the returned error and the events.
backupVault(store, profile, orgID, reset, backupPassword, w) ==
  LET id == getCredential(store, <<>>, BitwardenClientId, profile.Name, reset, w.o)
      secret == getCredential(id.store, <<>>, BitwardenClientSecret, profile.Name, reset, w.o)
      pw == getCredential(secret.store, <<>>, BitwardenPassword, profile.Name, reset, w.o)
      dir == VaultBackupDir(profile.BackupDir, w.homeOk, w.cwdOk, w.mkdirOk)
      creds == [clientID |-> id.value, clientSecret |-> secret.value, password |-> pw.value,
                backupPassword |-> backupPassword]
      entries == VaultEntries(creds, profile.Name, orgID)
      tmpfs == TmpfsList(MapOrderAt(TmpfsSlots, w.order))
      rw == [cwdOk |-> w.cwdOk, stat |-> "ok", envOrder |-> MapOrderAt(EnvSlots(entries), w.order),
             run |-> w.run]
  IN  IF id.err # Nil
      THEN {[store |-> id.store, err |-> CredentialError("vault", <<"c","l","i","e","n","t"," ","I","D">>, id.err),
             events |-> CallEvents(id)]}
      ELSE IF secret.err # Nil
      THEN {[store |-> secret.store,
             err |-> CredentialError("vault", <<"c","l","i","e","n","t"," ","s","e","c","r","e","t">>, secret.err),
             events |-> CallEvents(id) \o CallEvents(secret)]}
      ELSE IF pw.err # Nil
      THEN {[store |-> pw.store, err |-> CredentialError("vault", <<"p","a","s","s","w","o","r","d">>, pw.err),
             events |-> CallEvents(id) \o CallEvents(secret) \o CallEvents(pw)]}
      ELSE IF dir.err # Nil
      THEN {[store |-> pw.store, err |-> dir.err,
             events |-> CallEvents(id) \o CallEvents(secret) \o CallEvents(pw)]}
      ELSE {[store |-> pw.store, err |-> r.err,
             events |-> CallEvents(id) \o CallEvents(secret) \o CallEvents(pw)
                          \o <<AuditStarted("vault", profile.Name, orgID, w.time)>>
                          \o r.events
                          \o <<AuditFinished("vault", profile.Name, orgID, w.duration, r.err)>>]
              : r \in RunContainer(BackupImage, dir.path, <<>>, EnvOf(entries), tmpfs, TRUE, rw)}

\* the lines the user types at the prompts of a job: they change from one
\* job to the next
TypedAt(k) == IF k % 2 = 1 THEN <<" ","q"," ">> ELSE <<"j">>
\* what the environment does during the k-th job of a batch: the job
\* succeeds, or it fails in the way of the batch
JobWorlds(failure, k) ==
  {[o |-> [existsOk |-> TRUE, deleteOk |-> TRUE, getOk |-> ok \/ failure # "credential",
           setOk |-> TRUE, promptOk |-> ok \/ failure # "credential", typed |-> TypedAt(k)],
    homeOk |-> TRUE, cwdOk |-> TRUE, mkdirOk |-> TRUE, order |-> k,
    run |-> IF ok \/ failure # "container" THEN "exit0" ELSE "exit2",
    time |-> t, duration |-> d] : ok \in BOOLEAN, t \in StartTimes, d \in Durations}

\* the keychain after earlier runs: the backup password and the three
\* credentials of every profile are stored
BatchFullStore ==
  [a \in {AccountFor(c, BatchNames[i]) : c \in CredentialAccounts, i \in 1..MaxProfiles}
            \cup {BackupPasswordAccount} |-> <<"j">>]

BatchInit ==
  /\ btPc = "start"
  /\ btIn \in BatchInputs
  /\ btI = 0
  /\ btJ = 0
  /\ btPassword = <<>>
  /\ btErrors = <<>>
  /\ btSuccess = 0
  /\ btEvents = <<>>
  /\ btErr = <<>>
  /\ kcStore \in {EmptyStore} \cup (IF btIn.flags.encrypt THEN {BatchFullStore} ELSE {})
  /\ credPc = "idle" /\ credIn = NoCall /\ credOut = NoCall /\ credBefore = EmptyStore
  /\ SanIdle /\ RunIdle /\ BkIdle /\ DmIdle

\* lines 169-204: the config file, the Starting line, the backup password
BatchStart ==
  /\ btPc = "start"
  /\ LET home == ExpandHome(btIn.configPath, btIn.read # "nohome")
         config == ReadConfig(home.path, btIn.read, btIn.profiles)
     IN  IF home.err # Nil \/ config.err # Nil \/ Len(config.profiles) = 0
         THEN /\ btErr' = IF home.err # Nil THEN home.err
                          ELSE IF config.err # Nil THEN config.err
                          ELSE <<<<"n","o"," ","p","r","o","f","i","l","e","s"," ","f","o","u","n","d"," ","i","n"," ","c","o","n","f","i","g"," ","f","i","l","e">>>>
              /\ btPc' = "done"
              /\ UNCHANGED <<kcStore, btI, btPassword, btEvents>>
         ELSE \E o \in BackupOutcomes :
                LET r == getBackupPassword(kcStore, btIn.flags.isSet, btIn.flags.flagValue,
                                           btIn.flags.encrypt, btIn.flags.reset, o)
                IN  /\ kcStore' = r.store
                    /\ btEvents' = <<BatchStartingLine(Len(config.profiles))>> \o CallEvents(r)
                    /\ IF r.err # Nil
                       THEN /\ btErr' = r.err
                            /\ btPc' = "done"
                            /\ UNCHANGED <<btI, btPassword>>
                       ELSE /\ btPassword' = r.value
                            /\ btI' = 1
                            /\ btPc' = "personal"
                            /\ UNCHANGED btErr
  /\ UNCHANGED <<btIn, btJ, btErrors, btSuccess>>
  /\ UNCHANGED <<credPc, credIn, credOut, credBefore>>
  /\ UNCHANGED <<sanVars, runVars, bkVars, dmVars>>

\* lines 207-217: the personal vault of profile btI
BatchPersonal ==
  /\ btPc = "personal"
  /\ LET profile == btIn.profiles[btI]
     IN  \E w \in JobWorlds(btIn.failure, Len(BatchJobs) + 1) :
           \E r \in backupVault(kcStore, profile, <<>>, btIn.flags.reset, btPassword, w) :
             /\ kcStore' = r.store
             /\ btEvents' = btEvents
                  \o <<ProcessingLine(btI, Len(btIn.profiles), profile.Name)>>
                  \o r.events
                  \o <<Attempted(btI, profile, <<>>, btPassword, r.err),
                       JobResultLine(<<" "," ">>, <<"P","e","r","s","o","n","a","l"," ","v","a","u","l","t">>, r.err)>>
             /\ IF r.err # Nil
                THEN /\ btErrors' = Append(btErrors, PersonalVaultError(profile.Name, r.err))
                     /\ UNCHANGED btSuccess
                ELSE /\ btSuccess' = btSuccess + 1
                     /\ UNCHANGED btErrors
  /\ btJ' = 1
  /\ btPc' = "orgs"
  /\ UNCHANGED <<btIn, btI, btPassword, btErr>>
  /\ UNCHANGED <<credPc, credIn, credOut, credBefore>>
  /\ UNCHANGED <<sanVars, runVars, bkVars, dmVars>>

\* (mutant) --reset is applied to the personal vault of a profile only
BatchOrganizationWithoutReset ==
  /\ btPc = "orgs"
  /\ btJ <= Len(btIn.profiles[btI].Organizations)
  /\ LET profile == btIn.profiles[btI]
         orgID == profile.Organizations[btJ]
     IN  \E w \in JobWorlds(btIn.failure, Len(BatchJobs) + 1) :
           \E r \in backupVault(kcStore, profile, orgID, FALSE, btPassword, w) :
             /\ kcStore' = r.store
             /\ btEvents' = btEvents
                  \o <<OrganizationLine(orgID)>>
                  \o r.events
                  \o <<Attempted(btI, profile, orgID, btPassword, r.err),
                       JobResultLine(<<" "," "," "," ">>, <<"O","r","g","a","n","i","z","a","t","i","o","n">>, r.err)>>
             /\ IF r.err # Nil
                THEN /\ btErrors' = Append(btErrors,
                                           OrganizationError(profile.Name, orgID, r.err))
                     /\ UNCHANGED btSuccess
                ELSE /\ btSuccess' = btSuccess + 1
                     /\ UNCHANGED btErrors
  /\ btJ' = btJ + 1
  /\ UNCHANGED <<btPc, btIn, btI, btPassword, btErr>>
  /\ UNCHANGED <<credPc, credIn, credOut, credBefore>>
  /\ UNCHANGED <<sanVars, runVars, bkVars, dmVars>>

\* (mutant) the backup password is resolved again for every organization
BatchOrganizationResolvesAgain ==
  /\ btPc = "orgs"
  /\ btJ <= Len(btIn.profiles[btI].Organizations)
  /\ LET profile == btIn.profiles[btI]
         orgID == profile.Organizations[btJ]
     IN  \E w \in JobWorlds(btIn.failure, Len(BatchJobs) + 1) :
           LET b == getBackupPassword(kcStore, btIn.flags.isSet, btIn.flags.flagValue,
                                      btIn.flags.encrypt, btIn.flags.reset, w.o)
           IN  \E r \in backupVault(b.store, profile, orgID, btIn.flags.reset, b.value, w) :
                 /\ kcStore' = r.store
                 /\ btEvents' = btEvents
                      \o <<OrganizationLine(orgID)>> \o CallEvents(b)
                      \o r.events
                      \o <<Attempted(btI, profile, orgID, b.value, r.err),
                           JobResultLine(<<" "," "," "," ">>, <<"O","r","g","a","n","i","z","a","t","i","o","n">>, r.err)>>
                 /\ IF r.err # Nil
                    THEN /\ btErrors' = Append(btErrors,
                                               OrganizationError(profile.Name, orgID, r.err))
                         /\ UNCHANGED btSuccess
                    ELSE /\ btSuccess' = btSuccess + 1
                         /\ UNCHANGED btErrors
  /\ btJ' = btJ + 1
  /\ UNCHANGED <<btPc, btIn, btI, btPassword, btErr>>
  /\ UNCHANGED <<credPc, credIn, credOut, credBefore>>
  /\ UNCHANGED <<sanVars, runVars, bkVars, dmVars>>

\* lines 220-229: the next organization of profile btI
BatchOrganization ==
  /\ btPc = "orgs"
  /\ btJ <= Len(btIn.profiles[btI].Organizations)
  /\ LET profile == btIn.profiles[btI]
         orgID == profile.Organizations[btJ]
     IN  \E w \in JobWorlds(btIn.failure, Len(BatchJobs) + 1) :
           \E r \in backupVault(kcStore, profile, orgID, btIn.flags.reset, btPassword, w) :
             /\ kcStore' = r.store
             /\ btEvents' = btEvents
                  \o <<OrganizationLine(orgID)>>
                  \o r.events
                  \o <<Attempted(btI, profile, orgID, btPassword, r.err),
                       JobResultLine(<<" "," "," "," ">>, <<"O","r","g","a","n","i","z","a","t","i","o","n">>, r.err)>>
             /\ IF r.err # Nil
                THEN /\ btErrors' = Append(btErrors,
                                           OrganizationError(profile.Name, orgID, r.err))
                     /\ UNCHANGED btSuccess
                ELSE /\ btSuccess' = btSuccess + 1
                     /\ UNCHANGED btErrors
  /\ btJ' = btJ + 1
  /\ UNCHANGED <<btPc, btIn, btI, btPassword, btErr>>
  /\ UNCHANGED <<credPc, credIn, credOut, credBefore>>
  /\ UNCHANGED <<sanVars, runVars, bkVars, dmVars>>

\* (mutant) the batch stops after a profile with a failed job
BatchNextProfileStopsOnFailure ==
  /\ btPc = "orgs"
  /\ btJ > Len(btIn.profiles[btI].Organizations)
  /\ btEvents' = Append(btEvents, Printed("stdout", <<"\n">>))
  /\ IF btI < Len(btIn.profiles) /\ btErrors = <<>>
     THEN /\ btI' = btI + 1
          /\ btPc' = "personal"
     ELSE /\ btPc' = "summary"
          /\ UNCHANGED btI
  /\ UNCHANGED <<btIn, btJ, btPassword, btErrors, btSuccess, btErr>>
  /\ UNCHANGED <<sanVars, credVars, runVars, bkVars, dmVars>>

\* line 231 and the loop header: fmt.Println(), then the next profile
BatchNextProfile ==
  /\ btPc = "orgs"
  /\ btJ > Len(btIn.profiles[btI].Organizations)
  /\ btEvents' = Append(btEvents, Printed("stdout", <<"\n">>))
  /\ IF btI < Len(btIn.profiles)
     THEN /\ btI' = btI + 1
          /\ btPc' = "personal"
     ELSE /\ btPc' = "summary"
          /\ UNCHANGED btI
  /\ UNCHANGED <<btIn, btJ, btPassword, btErrors, btSuccess, btErr>>
  /\ UNCHANGED <<sanVars, credVars, runVars, bkVars, dmVars>>

\* lines 234-244: the summary, the list of errors, the returned error
BatchSummary ==
  /\ btPc = "summary"
  /\ btEvents' = btEvents
       \o <<SummaryLine(btSuccess, Len(btErrors))>>
       \o (IF Len(btErrors) > 0
           THEN <<Printed("stdout", <<"\n">> \o <<"E","r","r","o","r","s",":">> \o <<"\n">>)>> \o ErrorLines(btErrors)
           ELSE <<>>)
  /\ btErr' = IF Len(btErrors) > 0 THEN BatchError(Len(btErrors)) ELSE Nil
  /\ btPc' = "done"
  /\ UNCHANGED <<btIn, btI, btJ, btPassword, btErrors, btSuccess>>
  /\ UNCHANGED <<sanVars, credVars, runVars, bkVars, dmVars>>

BatchNext ==
  \/ BatchStart
  \/ BatchPersonal
  \/ BatchOrganization
  \/ BatchNextProfile
  \/ BatchSummary

SpecBatch == BatchInit /\ [][BatchNext]_vars

-----------------------------------------------------------------------------
(* Properties of sanitizeDockerArgs                                        *)

SanReturned == sanPc \in {"returned", "used"}
SanOut == sanHeap[sanResult]

\* token j of the input follows a "-e" token and is NAME=VALUE with NAME
\* tagged Sensitive in the env map
SensitivePairAt(j) ==
  /\ j > 1
  /\ sanOriginal[j - 1] = DashE
  /\ HasEq(sanOriginal[j])
  /\ NameOf(sanOriginal[j]) \in DOMAIN sanEnv
  /\ sanEnv[NameOf(sanOriginal[j])].Sensitive

\* C1: after sanitizeDockerArgs returns, every token that follows "-e" and is
\* NAME=VALUE with NAME tagged Sensitive is exactly NAME=***REDACTED*** in the
\* output (its value part is the marker, whatever VALUE was: empty, holding
\* "=", spaces or "$"), and scenario B yields the documented output.
C1_RedactsSensitivePairs ==
  SanReturned =>
    /\ \A j \in 1..Len(sanOriginal) :
         SensitivePairAt(j) =>
           /\ SanOut[j] = NameOf(sanOriginal[j]) \o <<"=","*","*","*","R","E","D","A","C","T","E","D","*","*","*">>
           /\ ValueOf(SanOut[j]) = <<"*","*","*","R","E","D","A","C","T","E","D","*","*","*">>
    /\ (sanOriginal = ScenarioBArgs /\ sanEnv = ScenarioBEnv) => SanOut = ScenarioBExpected

\* C1 witness: a sensitive pair whose value holds "=" came out redacted
C1_Witness ==
  /\ SanReturned
  /\ \E j \in 1..Len(sanOriginal) :
       /\ SensitivePairAt(j)
       /\ sanOriginal[j] = <<"K","=","s","=","t">>
       /\ SanOut[j] = <<"K","=","*","*","*","R","E","D","A","C","T","E","D","*","*","*">>

\* C2: sanitizeDockerArgs does not mutate its input: after the call the
\* caller's argv is element-wise what it was, the returned slice is another
\* backing array, and the argv the caller then uses is the unredacted one.
C2_InputNotMutated ==
  /\ SanReturned =>
       /\ sanResult # sanArgs
       /\ Len(sanHeap[sanArgs]) = Len(sanOriginal)
       /\ \A j \in 1..Len(sanOriginal) : sanHeap[sanArgs][j] = sanOriginal[j]
  /\ sanPc = "used" => sanExec = sanOriginal

\* C2 witness: the output was redacted and the caller's argv still holds the
\* secret value
C2_Witness ==
  /\ sanPc = "used"
  /\ SanOut # sanOriginal
  /\ \E j \in 1..Len(sanExec) : sanExec[j] = <<"K","=","s">> /\ SanOut[j] = <<"K","=","*","*","*","R","E","D","A","C","T","E","D","*","*","*">>

\* C3: the output has the length of the input, and a token is changed only
\* if it follows "-e" and is NAME=VALUE with a Sensitive NAME: pairs with an
\* unknown or non-sensitive NAME, tokens that do not follow "-e", and a
\* trailing "-e" come out unchanged.
C3_OthersPassThrough ==
  SanReturned =>
    /\ Len(SanOut) = Len(sanOriginal)
    /\ \A j \in 1..Len(sanOriginal) :
         ~SensitivePairAt(j) => SanOut[j] = sanOriginal[j]

\* C3 witness: a non-sensitive pair after "-e", then a trailing "-e", with
\* another name tagged Sensitive, all unchanged
C3_Witness ==
  /\ SanReturned
  /\ sanOriginal = << DashE, <<"L","=","s">>, DashE >>
  /\ <<"L">> \in DOMAIN sanEnv /\ ~sanEnv[<<"L">>].Sensitive
  /\ <<"K">> \in DOMAIN sanEnv /\ sanEnv[<<"K">>].Sensitive
  /\ SanOut = sanOriginal

-----------------------------------------------------------------------------
(* Properties of getCredential and GetOrSetPassword                        *)

CredReturned == credPc = "returned"
\* the last call went to the keychain: GetOrSetPassword(account, reset) ran
KeychainCall == CredReturned /\ credIn.flagValue = <<>>
\* the account the last call is expected to address
ExpectedAccount ==
  IF credIn.profile = <<>> THEN credIn.keychainAccount
  ELSE credIn.keychainAccount \o <<"_">> \o credIn.profile
OpNames == {credOut.ops[i].op : i \in 1..Len(credOut.ops)}
AllOpsOk == \A i \in 1..Len(credOut.ops) : credOut.ops[i].ok
SetSucceeded == \E i \in 1..Len(credOut.ops) : credOut.ops[i].op = "set" /\ credOut.ops[i].ok

\* C5: getCredential with a non-empty flagValue returns that value and no
\* error, issues no keychain operation and no prompt, and leaves the store as
\* it was, whatever the account, profile, reset flag and store contents.
C5_FlagShortCircuit ==
  (CredReturned /\ credIn.flagValue # <<>>) =>
    /\ credOut.value = credIn.flagValue
    /\ credOut.err = <<>>
    /\ credOut.ops = <<>>
    /\ credOut.prompts = <<>>
    /\ kcStore = credBefore

\* C5 witness: a flag value given together with --reset and a profile whose
\* account holds a stored password
C5_Witness ==
  /\ CredReturned
  /\ credIn.flagValue = <<"Q">>
  /\ credIn.reset
  /\ credIn.keychainAccount = <<"b","i","t","w","a","r","d","e","n","_","p","a","s","s","w","o","r","d">>
  /\ credIn.profile = <<"Q">>
  /\ <<"b","i","t","w","a","r","d","e","n","_","p","a","s","s","w","o","r","d","_","Q">> \in DOMAIN kcStore
  /\ credOut.value = <<"Q">>

\* C6: without a flag value getCredential addresses the account
\* keychainAccount when the profile is empty and keychainAccount_profile
\* otherwise: every store operation and prompt of the call names that account,
\* no other account of the store changes, and with an empty profile the
\* account is one of bitwarden_client_id, bitwarden_client_secret,
\* bitwarden_password.
C6_AccountNaming ==
  KeychainCall =>
    /\ credOut.ops # <<>>
    /\ \A i \in 1..Len(credOut.ops) : credOut.ops[i].account = ExpectedAccount
    /\ \A i \in 1..Len(credOut.prompts) : credOut.prompts[i].account = ExpectedAccount
    /\ \A a \in (DOMAIN kcStore \cup DOMAIN credBefore) \ {ExpectedAccount} :
         a \in DOMAIN kcStore /\ a \in DOMAIN credBefore /\ kcStore[a] = credBefore[a]
    /\ credIn.profile = <<>> =>
         ExpectedAccount \in {<<"b","i","t","w","a","r","d","e","n","_","c","l","i","e","n","t","_","i","d">>, <<"b","i","t","w","a","r","d","e","n","_","c","l","i","e","n","t","_","s","e","c","r","e","t">>,
                              <<"b","i","t","w","a","r","d","e","n","_","p","a","s","s","w","o","r","d">>}
    /\ (credIn.profile = <<"Q">> /\ credIn.keychainAccount = <<"b","i","t","w","a","r","d","e","n","_","c","l","i","e","n","t","_","i","d">>) =>
         credOut.ops[1].account = <<"b","i","t","w","a","r","d","e","n","_","c","l","i","e","n","t","_","i","d","_","Q">>

\* C6 witness: a call without profile wrote a new password to the account
\* bitwarden_client_id while bitwarden_client_id_w held another one
C6_Witness ==
  /\ KeychainCall
  /\ credIn.profile = <<>>
  /\ credIn.keychainAccount = <<"b","i","t","w","a","r","d","e","n","_","c","l","i","e","n","t","_","i","d">>
  /\ SetSucceeded
  /\ <<"b","i","t","w","a","r","d","e","n","_","c","l","i","e","n","t","_","i","d">> \in DOMAIN kcStore
  /\ <<"b","i","t","w","a","r","d","e","n","_","c","l","i","e","n","t","_","i","d","_","Q">> \in DOMAIN kcStore
  /\ kcStore[<<"b","i","t","w","a","r","d","e","n","_","c","l","i","e","n","t","_","i","d">>] # kcStore[<<"b","i","t","w","a","r","d","e","n","_","c","l","i","e","n","t","_","i","d","_","Q">>]

\* C7 (as amended): GetOrSetPassword with reset=true prompts exactly once,
\* stored value or not, delete failed or not; when the prompt and the store
\* write succeed it returns the entered line with leading and trailing white
\* space removed, and the store holds that value under the account.
C7_ResetPromptsAndStores ==
  (KeychainCall /\ credIn.reset) =>
    /\ Len(credOut.prompts) = 1
    /\ (credIn.promptOk /\ SetSucceeded) =>
         /\ credOut.err = <<>>
         /\ credOut.value = TrimSpace(credIn.typed)
         /\ ExpectedAccount \in DOMAIN kcStore
         /\ kcStore[ExpectedAccount] = TrimSpace(credIn.typed)

\* C7 as stated: the value returned and stored is the entered one
C7_ReturnsEnteredValue ==
  (KeychainCall /\ credIn.reset) =>
    /\ Len(credOut.prompts) = 1
    /\ (credIn.promptOk /\ SetSucceeded) =>
         /\ credOut.err = <<>>
         /\ credOut.value = credIn.typed
         /\ ExpectedAccount \in DOMAIN kcStore
         /\ kcStore[ExpectedAccount] = credIn.typed

\* C7 witness: reset on an account holding "j" whose delete failed; the new
\* line was read and stored, and the store holds the new value
C7_Witness ==
  /\ KeychainCall /\ credIn.reset
  /\ ExpectedAccount \in DOMAIN credBefore /\ credBefore[ExpectedAccount] = <<"j">>
  /\ \E i \in 1..Len(credOut.ops) : credOut.ops[i].op = "delete" /\ ~credOut.ops[i].ok
  /\ credIn.promptOk /\ SetSucceeded
  /\ credOut.value = <<"q">>
  /\ kcStore[ExpectedAccount] = <<"q">>

-----------------------------------------------------------------------------
(* Properties of RunContainer, RunDaemon and the backup jobs               *)

RunContainerReturned == runPc = "returned" /\ runIn.fn = "RunContainer"
RunDaemonReturned == runPc = "returned" /\ runIn.fn = "RunDaemon"
BackupJob == bkPc # "idle"
BackupDone == bkPc = "done"
\* the text of every line in a sequence of events
Texts(events) == {Lines(events)[i].text : i \in 1..Len(Lines(events))}
\* the non-empty values of the env vars tagged Sensitive
SensitiveValues(env) == {env[k].Value : k \in {n \in DOMAIN env : env[n].Sensitive}} \ {<<>>}
\* env with every Sensitive value replaced by v
WithSecrets(env, v) ==
  [k \in DOMAIN env |-> IF env[k].Sensitive THEN EnvVar(v, TRUE) ELSE env[k]]
\* replacement values: the empty string and a string that is no input
OtherSecrets == {<<>>, <<"#">>}
\* the lines RunContainer prints for runIn with its secrets replaced by v
RunContainerLinesWith(v) ==
  {Lines(r.events) :
     r \in RunContainer(runIn.image, runIn.workDir, runIn.args, WithSecrets(runIn.env, v),
                        runIn.tmpfs, runIn.removeContainer, runIn.w)}
\* the keychain texts a job of this profile can print: they name accounts only
KeychainTexts(profile) ==
  UNION {{PasswordLine(a, <<"n","o","t"," ","f","o","u","n","d"," ","i","n"," ","K","e","y","c","h","a","i","n",".">>), PasswordLine(a, <<"s","a","v","e","d"," ","t","o"," ","K","e","y","c","h","a","i","n",".">>),
          PasswordLine(a, <<"u","p","d","a","t","e","d"," ","i","n"," ","K","e","y","c","h","a","i","n",".">>), EnterPrompt(a), EnterNewPrompt(a)}
           : a \in BackupAccounts(profile)}
\* the audit lines of a job, made of its mode and profile, an organization
\* id, a time and the error RunContainer returned
AuditTexts(mode, profile, err) ==
  UNION {{AuditStarted(mode, profile, orgID, time).text,
          AuditFinished(mode, profile, orgID, duration, err).text}
           : orgID \in OrgIds, time \in StartTimes, duration \in Durations}

\* C4 (as amended): the lines printed by RunContainer, RunDaemon,
\* runSingleBackup and backupVault do not depend on the values of the env
\* vars tagged Sensitive: RunContainer prints the same "Executing:" line
\* when every Sensitive value is replaced by another string, RunDaemon
\* prints nothing, and every other line of a backup job is made of account
\* names, the profile, the organization id, times and the returned error.
C4_LinesIndependentOfSecrets ==
  /\ RunContainerReturned =>
       \A v \in OtherSecrets : Lines(runOut.events) \in RunContainerLinesWith(v)
  /\ RunDaemonReturned => Lines(runOut.events) = <<>>
  /\ BackupJob =>
       Texts(bkEvents) \subseteq
         KeychainTexts(bkIn.profile)
           \cup (IF runPc = "returned"
                 THEN Texts(runOut.events) \cup {StartingLine.text}
                        \cup AuditTexts(bkIn.mode, bkIn.profile, runOut.err)
                 ELSE {})

\* C4 as stated: no printed line contains the non-empty value of an env var
\* tagged Sensitive
C4_NoLineContainsSecret ==
  runPc = "returned" =>
    \A text \in Texts(runOut.events) \cup Texts(bkEvents), s \in SensitiveValues(runIn.env) :
      ~Contains(text, s)

\* C4 witness: a backup of profile Q whose master password, given by flag,
\* is also Q; the container was started and the "Executing:" line shows the
\* password redacted and the profile as it is
C4_Witness ==
  /\ BackupDone /\ runPc = "returned"
  /\ bkIn.mode = "single" /\ bkIn.profile = <<"Q">>
  /\ bkCreds.password = <<"Q">>
  /\ bkCreds.backupPassword = <<"q">>
  /\ \E i \in 1..Len(runOut.events) : runOut.events[i].kind = "exec"
  /\ \E text \in Texts(runOut.events) :
       /\ Contains(text, <<"-","e"," ","B","W","_","P","A","S","S","W","O","R","D","=","*","*","*","R","E","D","A","C","T","E","D","*","*","*"," ">>)
       /\ Contains(text, <<"-","e"," ","B","W","_","B","A","C","K","U","P","_","P","A","S","S","W","O","R","D","=","*","*","*","R","E","D","A","C","T","E","D","*","*","*"," ">>)
       /\ Contains(text, <<"-","e"," ","B","W","_","P","R","O","F","I","L","E","=","Q"," ">>)

\* the last keychain call found the store unavailable (every store operation
\* it issued failed), or a read or write of the password failed, or the
\* prompt could not be read
AllOpsFailed ==
  credOut.ops # <<>> /\ \A i \in 1..Len(credOut.ops) : ~credOut.ops[i].ok
GetOrSetFailed ==
  \E i \in 1..Len(credOut.ops) : credOut.ops[i].op \in {"get", "set"} /\ ~credOut.ops[i].ok
PromptFailed == credOut.prompts # <<>> /\ ~credIn.promptOk
KeychainFailed == credOut # NoCall /\ (AllOpsFailed \/ GetOrSetFailed \/ PromptFailed)

\* C9: when the keychain is unavailable during a credential call of a backup
\* job (every store operation of the call fails, or its get or set fails) or
\* the prompt cannot be read, the call returns an error and the empty value,
\* the job ends with that error (wrapped by backupVault) and no process has
\* been run.
C9_KeychainFailureAbortsJob ==
  (BackupJob /\ KeychainFailed) =>
    /\ credOut.err # Nil
    /\ credOut.value = <<>>
    /\ BackupDone
    /\ bkErr # Nil
    /\ (IF bkIn.mode = "vault" THEN Tail(bkErr) ELSE bkErr) = credOut.err
    /\ Procs(bkEvents) = <<>>
    /\ runPc = "idle"

\* C9 witness: the first two credentials came from the keychain, then the
\* keychain became unavailable while the master password was resolved
C9_Witness ==
  /\ BackupDone /\ KeychainFailed
  /\ bkCreds.clientID = <<"j">> /\ bkCreds.clientSecret = <<"j">>
  /\ credIn.keychainAccount = BitwardenPassword
  /\ AllOpsFailed /\ Len(credOut.ops) = 2
  /\ bkErr # Nil /\ Procs(bkEvents) = <<>>

\* the resolved work directory of the direct calls
ExpectedAbsWorkDir == IF runIn.workDir = <<"/","d">> THEN <<"/","d">> ELSE <<"/","c","w","d","/","d">>

\* C10: RunContainer on a work directory that os.Stat reports as not
\* existing returns an error ("work directory does not exist: <path>" when
\* the path could be resolved), prints nothing and runs no process.
C10_MissingWorkDirRejected ==
  (RunContainerReturned /\ runIn.w.stat = "notexist") =>
    /\ runOut.err # Nil
    /\ runOut.events = <<>>
    /\ (BackupJob \/ runIn.w.cwdOk \/ runIn.workDir = <<"/","d">>) =>
         ErrorText(runOut.err) = <<"w","o","r","k"," ","d","i","r","e","c","t","o","r","y"," ","d","o","e","s"," ","n","o","t"," ","e","x","i","s","t",":"," ">> \o ExpectedAbsWorkDir

\* C10 witness: a relative work directory that is missing, with a secret in
\* the env map and --rm requested
C10_Witness ==
  /\ RunContainerReturned /\ runIn.w.stat = "notexist"
  /\ runIn.workDir = <<"d">> /\ runIn.w.cwdOk
  /\ runIn.removeContainer
  /\ <<"K">> \in DOMAIN runIn.env /\ runIn.env[<<"K">>].Sensitive /\ runIn.env[<<"K">>].Value = <<"Q">>
  /\ ErrorText(runOut.err) = <<"w","o","r","k"," ","d","i","r","e","c","t","o","r","y"," ","d","o","e","s"," ","n","o","t"," ","e","x","i","s","t",":"," ","/","c","w","d","/","d">>
  /\ runOut.events = <<>>

\* the processes that were started
Launched(events) == SelectSeq(events, LAMBDA e : e.kind = "exec" /\ e.started)

\* C11 (as stated): whenever os.Stat fails on the resolved work directory,
\* for whatever reason, RunContainer returns an error and launches no
\* process.
C11_StatFailureRejected ==
  (RunContainerReturned /\ Abs(runIn.workDir, runIn.w.cwdOk).err = Nil
     /\ runIn.w.stat # "ok") =>
    /\ runOut.err # Nil
    /\ Launched(runOut.events) = <<>>

\* the argv of the docker process RunContainer ran
RunArgv == Procs(runOut.events)[1].argv
RunContainerRan == RunContainerReturned /\ Procs(runOut.events) # <<>>
\* where the segments of that argv start: after "docker" "run" and the
\* optional "--rm" come the tmpfs pairs, then the env pairs, then the mount
TmpfsBase == IF runIn.removeContainer THEN 3 ELSE 2
EnvBase == TmpfsBase + 2 * Len(runIn.tmpfs)
MountBase == EnvBase + 2 * Cardinality(DOMAIN runIn.env)

\* C12: the argv RunContainer passes to docker is "run", then "--rm" iff
\* removeContainer, then one "--tmpfs <mount>" pair per tmpfs mount in the
\* order of the list, then one "-e KEY=VALUE" pair per env entry (each
\* entry exactly once), then "-v <absWorkDir>:/workspace", "-w",
\* "/workspace", the image, and the trailing args in their given order.
C12_ArgvSegmentOrder ==
  RunContainerRan =>
    /\ Len(Procs(runOut.events)) = 1
    /\ Len(RunArgv) = MountBase + 5 + Len(runIn.args)
    /\ RunArgv[1] = <<"d","o","c","k","e","r">> /\ RunArgv[2] = <<"r","u","n">>
    /\ (RunArgv[3] = <<"-","-","r","m">>) <=> runIn.removeContainer
    /\ \A i \in 1..Len(runIn.tmpfs) :
         /\ RunArgv[TmpfsBase + 2 * i - 1] = <<"-","-","t","m","p","f","s">>
         /\ RunArgv[TmpfsBase + 2 * i] = runIn.tmpfs[i]
    /\ \A j \in 1..Cardinality(DOMAIN runIn.env) : RunArgv[EnvBase + 2 * j - 1] = <<"-","e">>
    /\ \A k \in DOMAIN runIn.env :
         Cardinality({j \in 1..Cardinality(DOMAIN runIn.env) :
                        RunArgv[EnvBase + 2 * j] = k \o <<"=">> \o runIn.env[k].Value}) = 1
    /\ RunArgv[MountBase + 1] = <<"-","v">>
    /\ RunArgv[MountBase + 2] = Abs(runIn.workDir, runIn.w.cwdOk).path \o <<":","/","w","o","r","k","s","p","a","c","e">>
    /\ RunArgv[MountBase + 3] = <<"-","w">>
    /\ RunArgv[MountBase + 4] = <<"/","w","o","r","k","s","p","a","c","e">>
    /\ RunArgv[MountBase + 5] = runIn.image
    /\ \A i \in 1..Len(runIn.args) : RunArgv[MountBase + 5 + i] = runIn.args[i]

\* C12 witness: a call with --rm, a tmpfs mount, two env entries and a
\* trailing argument, whose process was run
C12_Witness ==
  /\ RunContainerRan
  /\ runIn.removeContainer
  /\ runIn.tmpfs = <<<<"/","t",":","r","w">>>>
  /\ DOMAIN runIn.env = {<<"K">>, <<"L">>}
  /\ runIn.args = <<<<"K","=","Q">>>>
  /\ RunArgv[4] = <<"-","-","t","m","p","f","s">> /\ RunArgv[6] = <<"-","e">> /\ RunArgv[10] = <<"-","v">>
  /\ RunArgv[15] = <<"K","=","Q">>

\* the same order in a backup job, with its four tmpfs mounts
C12_BackupWitness ==
  /\ RunContainerRan /\ BackupDone
  /\ Len(runIn.tmpfs) = 4
  /\ RunArgv[3] = <<"-","-","r","m">> /\ RunArgv[4] = <<"-","-","t","m","p","f","s">> /\ RunArgv[10] = <<"-","-","t","m","p","f","s">>
  /\ RunArgv[12] = <<"-","e">>

\* the orders in which another run of the same job can range over its env
\* map: the map is rebuilt with the same entries in the same insertion order
BackupEnvOrders ==
  UNION {MapOrders(EnvSlots(BackupEntries(bkIn.mode, bkCreds, bkIn.profile, orgID))) :
           orgID \in {o \in OrgIds :
                        EnvOf(BackupEntries(bkIn.mode, bkCreds, bkIn.profile, o)) = runIn.env}}

\* the argv another backup invocation with the inputs of this one can pass
\* to docker
BackupArgvs ==
  {ContainerArgs(runIn.image, Abs(runIn.workDir, runIn.w.cwdOk).path, runIn.args, runIn.env,
                 envOrder, TmpfsList(tmpfsOrder), runIn.removeContainer) :
     envOrder \in BackupEnvOrders, tmpfsOrder \in MapOrders(TmpfsSlots)}

\* C13 (as stated): two backup invocations with identical inputs pass
\* element-wise identical argv to docker, with the same order of the "-e"
\* pairs and of the "--tmpfs" pairs: every argv a second invocation with
\* the inputs of this one can build is the argv this one built.
C13_ArgvDeterministic ==
  (RunContainerRan /\ BackupDone) => \A argv \in BackupArgvs : argv = Tail(RunArgv)

\* what holds instead: the argv is one of several that the same inputs can
\* give, which differ in the order of the pairs only
C13_ArgvVariesWithMapOrder ==
  (RunContainerRan /\ BackupDone) =>
    /\ Tail(RunArgv) \in BackupArgvs
    /\ Cardinality(BackupArgvs) > 1

\* C14: RunContainer returns nil exactly when the docker process was
\* started and exited with status 0; a nonzero exit status and a failure
\* to start give "docker run failed" wrapping the cause; and the call
\* returns after the child it started has ended.
C14_NilIffStartedAndExitZero ==
  RunContainerReturned =>
    /\ (runOut.err = Nil) <=>
         /\ Len(Procs(runOut.events)) = 1
         /\ Procs(runOut.events)[1].started
         /\ Procs(runOut.events)[1].outcome = "exit0"
    /\ \A i \in 1..Len(Procs(runOut.events)) :
         LET p == Procs(runOut.events)[i]
         IN  /\ p.started => p.waited
             /\ p.outcome = "exit1" => ErrorText(runOut.err) = <<"d","o","c","k","e","r"," ","r","u","n"," ","f","a","i","l","e","d",":"," ","e","x","i","t"," ","s","t","a","t","u","s"," ","1">>
             /\ p.outcome = "exit2" => ErrorText(runOut.err) = <<"d","o","c","k","e","r"," ","r","u","n"," ","f","a","i","l","e","d",":"," ","e","x","i","t"," ","s","t","a","t","u","s"," ","2">>
             /\ ~p.started =>
                  /\ Len(runOut.err) = 2
                  /\ runOut.err[1] = <<"d","o","c","k","e","r"," ","r","u","n"," ","f","a","i","l","e","d">>
                  /\ runOut.err[2] = <<"e","x","e","c",":"," ","\"","d","o","c","k","e","r","\"",":"," ","e","x","e","c","u","t","a","b","l","e"," ","f","i","l","e"," ","n","o","t"," ","f","o","u","n","d"," ","i","n"," ","$","P","A","T","H">>

\* C14 witness: a direct call whose docker process ran and exited with 2
C14_Witness ==
  /\ RunContainerReturned /\ ~BackupJob
  /\ Len(Procs(runOut.events)) = 1
  /\ Procs(runOut.events)[1].started /\ Procs(runOut.events)[1].waited
  /\ Procs(runOut.events)[1].outcome = "exit2"
  /\ runOut.err = <<<<"d","o","c","k","e","r"," ","r","u","n"," ","f","a","i","l","e","d">>, <<"e","x","i","t"," ","s","t","a","t","u","s"," ","2">>>>

\* the "Executing: docker ..." lines among the events
ExecutingLines(events) ==
  SelectSeq(events, LAMBDA e : e.kind = "print" /\ HasPrefix(e.text, <<"E","x","e","c","u","t","i","n","g",":"," ","d","o","c","k","e","r"," ">>))
\* the call was turned down before dockerArgs was built
RunContainerRejected ==
  /\ RunContainerReturned
  /\ \/ Abs(runIn.workDir, runIn.w.cwdOk).err # Nil
     \/ runIn.w.stat = "notexist"

\* C15: in every call of RunContainer the docker process is preceded by
\* exactly one "Executing: docker ..." line of that call, which is redacted
\* (it is the line of the same call with every Sensitive value replaced);
\* no process is run without its line, and a call rejected during
\* validation prints no line and runs no process.
C15_AuditLineBeforeProcess ==
  RunContainerReturned =>
    /\ RunContainerRejected => runOut.events = <<>>
    /\ Len(Procs(runOut.events)) <= 1
    /\ Len(ExecutingLines(runOut.events)) = Len(Procs(runOut.events))
    /\ Procs(runOut.events) # <<>> =>
         /\ Len(runOut.events) = 2
         /\ runOut.events[1] = ExecutingLines(runOut.events)[1]
         /\ runOut.events[1].stream = "stdout"
         /\ runOut.events[2] = Procs(runOut.events)[1]
         /\ <<runOut.events[1]>> \in RunContainerLinesWith(<<"#">>)

\* C15 witness: a call with a Sensitive entry whose line was printed and
\* whose process was then started
C15_Witness ==
  /\ RunContainerReturned /\ ~BackupJob
  /\ <<"K">> \in DOMAIN runIn.env /\ runIn.env[<<"K">>] = EnvVar(<<"Q">>, TRUE)
  /\ Len(runOut.events) = 2
  /\ runOut.events[1].kind = "print"
  /\ Contains(runOut.events[1].text, <<"-","e"," ","K","=","*","*","*","R","E","D","A","C","T","E","D","*","*","*">>)
  /\ runOut.events[2].kind = "exec" /\ runOut.events[2].started
  /\ Contains(Join(runOut.events[2].argv, <<" ">>), <<"-","e"," ","K","=","Q">>)

\* a rejected call: nothing printed, nothing run
C15_RejectedWitness ==
  /\ RunContainerRejected
  /\ runIn.w.cwdOk /\ runIn.w.stat = "notexist"
  /\ runOut.events = <<>>

\* the errors RunContainer returns for the call in runIn when the docker
\* process ends as `run` instead
RunContainerErrWith(run) ==
  {r.err : r \in RunContainer(runIn.image, runIn.workDir, runIn.args, runIn.env, runIn.tmpfs,
                              runIn.removeContainer, [runIn.w EXCEPT !.run = run])}
\* a single backup whose container ran and exited with 1 or 2
SingleBackupFailedInJob ==
  /\ BackupDone /\ bkIn.mode = "single"
  /\ RunContainerRan
  /\ runIn.w.run \in {"exit1", "exit2"}

\* C16 (as stated): a job that exits with 1 and a job that exits with 2
\* give distinguishable results at the caller of RunContainer and at the
\* exit status of the CLI: had the container of this backup ended with the
\* other of the two codes, both the returned error and the exit status of
\* the program would differ.
C16_ExitCodeSurfaced ==
  SingleBackupFailedInJob =>
    \A other \in {"exit1", "exit2"} \ {runIn.w.run} :
      \A otherErr \in RunContainerErrWith(other) :
        /\ otherErr # bkErr
        /\ CliExitStatus(otherErr) # CliExitStatus(bkErr)

\* what holds: the two codes differ in the error RunContainer returns and in
\* the "Error:" line, and both end the program with status 1
C16_ExitCodeInErrorTextOnly ==
  SingleBackupFailedInJob =>
    \A other \in {"exit1", "exit2"} \ {runIn.w.run} :
      \A otherErr \in RunContainerErrWith(other) :
        /\ otherErr # bkErr
        /\ MainErrorLine(otherErr) # MainErrorLine(bkErr)
        /\ CliExitStatus(otherErr) = 1 /\ CliExitStatus(bkErr) = 1

\* the lines of a listing: the text between newlines, without the empty
\* piece after the last newline
RECURSIVE SplitLines(_, _)
SplitLines(s, line) ==
  IF s = <<>> THEN (IF line = <<>> THEN {} ELSE {line})
  ELSE IF Head(s) = "\n" THEN {line} \cup SplitLines(Tail(s), <<>>)
  ELSE SplitLines(Tail(s), Append(line, Head(s)))
\* a container of that name is present in the listing `docker ps` returned
NamePresent == runIn.name \in SplitLines(runIn.w.psOutput, <<>>)
RemoveArgv == <<<<"d","o","c","k","e","r">>, <<"r","m">>, <<"-","f">>, runIn.name>>
\* the positions in the events at which `docker rm -f name` and
\* `docker run ... --name name` were issued
RemovalsAt == {i \in 1..Len(runOut.events) : runOut.events[i].argv = RemoveArgv}
RunsAt ==
  {i \in 1..Len(runOut.events) :
     /\ runOut.events[i].argv[2] = <<"r","u","n">>
     /\ \E j \in 3..(Len(runOut.events[i].argv) - 1) :
          runOut.events[i].argv[j] = <<"-","-","n","a","m","e">> /\ runOut.events[i].argv[j + 1] = runIn.name}
DaemonListed == RunDaemonReturned /\ runIn.w.ps = "exit0"

\* C17 (as stated): when a container named `name` is present in the listing
\* returned by `docker ps -a`, alone or among other names, RunDaemon issues
\* `docker rm -f name`, and completes it before it issues
\* `docker run --name name`; when none is listed it issues no removal.
C17_StaleContainerRemovedFirst ==
  DaemonListed =>
    /\ NamePresent =>
         /\ Cardinality(RemovalsAt) = 1
         /\ \A i \in RemovalsAt, j \in RunsAt : i < j /\ runOut.events[i].waited
    /\ ~NamePresent => RemovalsAt = {}

\* what holds: the removal is issued exactly when the whole output of
\* `docker ps` is the name, without a newline; then it comes before the run
C17_RemovedOnlyWhenOutputIsName ==
  DaemonListed =>
    /\ (RemovalsAt # {}) <=> (runIn.w.psOutput = runIn.name)
    /\ \A i \in RemovalsAt, j \in RunsAt : i < j
    /\ (NamePresent /\ runIn.w.psOutput # runIn.name /\ runIn.w.run = "exit0") =>
         RemovalsAt = {} /\ Cardinality(RunsAt) = 1

\* the containers of a name, and two calls in a row that the runtime served
\* without a failure of its own
Named(containers, name) == SelectSeq(containers, LAMBDA c : c.name = name)
CallValid(call) == call.mode \in {<<"p","a","p","e","r">>, <<"l","i","v","e">>}
CallServed(call) == call.fail = "none"
TwoCallsInARow ==
  /\ Len(dmCalls) >= 2
  /\ dmCalls[1].before = <<>>
  /\ dmCalls[1].name = dmCalls[2].name
  /\ \A i \in 1..2 : CallValid(dmCalls[i]) /\ CallServed(dmCalls[i])

\* C18 (as stated): RunDaemon called twice in a row with the same name,
\* against a runtime that refuses a second container of a name in use,
\* succeeds both times and leaves exactly one container of that name after
\* each call, the one after the second call being freshly launched.
C18_SecondCallReplaces ==
  TwoCallsInARow =>
    /\ \A i \in 1..2 :
         /\ dmCalls[i].err = Nil
         /\ Len(Named(dmCalls[i].after, dmCalls[i].name)) = 1
    /\ Named(dmCalls[2].after, dmCalls[2].name) # Named(dmCalls[1].after, dmCalls[1].name)

\* what holds: the second call issues no removal, its `docker run` is
\* refused, it returns that error, and the container of the first call stays
C18_SecondCallRefused ==
  TwoCallsInARow =>
    /\ dmCalls[1].err = Nil
    /\ Len(Named(dmCalls[1].after, dmCalls[1].name)) = 1
    /\ ~Issued(dmCalls[2].events, <<"r","m">>)
    /\ dmCalls[2].err = <<<<"d","o","c","k","e","r"," ","r","u","n"," ","f","a","i","l","e","d">>, <<"e","x","i","t"," ","s","t","a","t","u","s"," ","1","2","5">>>>
    /\ dmCalls[2].after = dmCalls[1].after

\* containers never accumulate under one name, the runtime sees to that
C18_OneContainerPerName ==
  \A i, j \in 1..Len(dmContainers) : dmContainers[i].name = dmContainers[j].name => i = j

\* the docker processes of the call in runOut with a given verb
DaemonProcs(verb) ==
  SelectSeq(runOut.events, LAMBDA e : e.kind = "exec" /\ Verb(e) = verb)

\* C19: RunDaemon fails safe.  When listing the containers fails it returns
\* "failed to list containers" having issued neither `docker rm` nor
\* `docker run`; when removing the existing container fails it returns
\* "failed to remove existing container" without issuing `docker run`;
\* when `docker run` fails it returns "docker run failed" wrapping the
\* cause; and `docker run` is issued at most once per call.
C19_DaemonFailsSafe ==
  RunDaemonReturned =>
    /\ Len(DaemonProcs(<<"p","s">>)) = 1
    /\ Len(DaemonProcs(<<"r","m">>)) <= 1
    /\ Len(DaemonProcs(<<"r","u","n">>)) <= 1
    /\ DaemonProcs(<<"p","s">>)[1].outcome # "exit0" =>
         /\ runOut.err = <<<<"f","a","i","l","e","d"," ","t","o"," ","l","i","s","t"," ","c","o","n","t","a","i","n","e","r","s">>>> \o RunError(runIn.w.ps)
         /\ Len(runOut.err) = 2
         /\ DaemonProcs(<<"r","m">>) = <<>>
         /\ DaemonProcs(<<"r","u","n">>) = <<>>
    /\ (DaemonProcs(<<"r","m">>) # <<>> /\ DaemonProcs(<<"r","m">>)[1].outcome # "exit0") =>
         /\ runOut.err = <<<<"f","a","i","l","e","d"," ","t","o"," ","r","e","m","o","v","e"," ","e","x","i","s","t","i","n","g"," ","c","o","n","t","a","i","n","e","r">>>> \o RunError(runIn.w.rm)
         /\ Len(runOut.err) = 2
         /\ DaemonProcs(<<"r","u","n">>) = <<>>
    /\ (DaemonProcs(<<"r","u","n">>) # <<>> /\ DaemonProcs(<<"r","u","n">>)[1].outcome # "exit0") =>
         /\ runOut.err = <<<<"d","o","c","k","e","r"," ","r","u","n"," ","f","a","i","l","e","d">>>> \o RunError(runIn.w.run)
         /\ Len(runOut.err) = 2
    /\ (runOut.err = Nil) <=>
         (DaemonProcs(<<"r","u","n">>) # <<>> /\ DaemonProcs(<<"r","u","n">>)[1].outcome = "exit0")

\* C19 witness: the container is listed and its removal fails
C19_Witness ==
  /\ RunDaemonReturned
  /\ runIn.w.psOutput = runIn.name
  /\ Len(runOut.events) = 2
  /\ Verb(runOut.events[2]) = <<"r","m">> /\ runOut.events[2].outcome = "exit1"
  /\ ErrorText(runOut.err) = <<"f","a","i","l","e","d"," ","t","o"," ","r","e","m","o","v","e"," ","e","x","i","s","t","i","n","g"," ","c","o","n","t","a","i","n","e","r",":"," ","e","x","i","t"," ","s","t","a","t","u","s"," ","1">>
  /\ runIn.w.run = "exit0"

\* the listing fails: one process, the listing itself
C19_ListFailedWitness ==
  /\ RunDaemonReturned
  /\ runIn.w.ps = "exit1" /\ runIn.w.rm = "exit0" /\ runIn.w.run = "exit0"
  /\ Len(runOut.events) = 1
  /\ ErrorText(runOut.err) = <<"f","a","i","l","e","d"," ","t","o"," ","l","i","s","t"," ","c","o","n","t","a","i","n","e","r","s",":"," ","e","x","i","t"," ","s","t","a","t","u","s"," ","1">>

\* docker run fails: it is not issued again
C19_RunFailedWitness ==
  /\ RunDaemonReturned
  /\ runIn.w.ps = "exit0" /\ runIn.w.run = "exit2"
  /\ Len(DaemonProcs(<<"r","u","n">>)) = 1
  /\ ErrorText(runOut.err) = <<"d","o","c","k","e","r"," ","r","u","n"," ","f","a","i","l","e","d",":"," ","e","x","i","t"," ","s","t","a","t","u","s"," ","2">>

-----------------------------------------------------------------------------
(* Properties of runBatchBackup                                            *)

\* the jobs attempted so far, in order
FailedJobs == {k \in 1..Len(BatchJobs) : BatchJobs[k].err # Nil}
\* the jobs a list of profiles asks for: for each profile in turn its
\* personal vault (no organization id), then its organizations as listed
RECURSIVE JobsOfOrgs(_, _)
JobsOfOrgs(i, orgs) ==
  IF orgs = <<>> THEN <<>>
  ELSE <<[index |-> i, orgID |-> Head(orgs)]>> \o JobsOfOrgs(i, Tail(orgs))
RECURSIVE JobsOfProfiles(_, _)
JobsOfProfiles(profiles, i) ==
  IF i > Len(profiles) THEN <<>>
  ELSE <<[index |-> i, orgID |-> <<>>]>> \o JobsOfOrgs(i, profiles[i].Organizations)
         \o JobsOfProfiles(profiles, i + 1)
\* the loop over the profiles was entered and has ended
BatchLoopEnded == btPc \in {"summary", "done"} /\ btI > 0

\* C20: for every non-empty list of profiles and every pattern of job
\* outcomes, once the loop of runBatchBackup has ended exactly one job was
\* attempted for the personal vault of each profile and one for each of its
\* organizations, in the order of the config file, whatever failed before;
\* their number is the sum over the profiles of 1 + the number of
\* organizations; and with K failed jobs len(errors) = K and
\* successCount = total - K, which is what the summary line reports.
C20_EveryJobAttemptedAndCounted ==
  /\ Len(btErrors) = Cardinality(FailedJobs)
  /\ btSuccess = Len(BatchJobs) - Cardinality(FailedJobs)
  /\ BatchLoopEnded =>
       /\ btIn.profiles # <<>>
       /\ [k \in 1..Len(BatchJobs) |->
             [index |-> BatchJobs[k].index, orgID |-> BatchJobs[k].orgID]]
            = JobsOfProfiles(btIn.profiles, 1)
       /\ Len(BatchJobs) = TotalJobs(btIn.profiles)
       /\ btSuccess = TotalJobs(btIn.profiles) - Len(btErrors)
  /\ (BatchLoopEnded /\ btPc = "done") =>
       \E k \in 1..Len(btEvents) :
         btEvents[k] = SummaryLine(TotalJobs(btIn.profiles) - Cardinality(FailedJobs),
                                   Cardinality(FailedJobs))

\* C20 witness: two profiles, the first with two organizations; the
\* personal vault and the second organization of the first profile fail,
\* the other two jobs succeed: four jobs, two errors, successCount 2
C20_Witness ==
  /\ btPc = "done"
  /\ Len(btIn.profiles) = 2
  /\ btIn.profiles[1].Organizations = <<<<"X">>, <<"Y">>>>
  /\ btIn.profiles[2].Organizations = <<>>
  /\ Len(BatchJobs) = 4
  /\ FailedJobs = {1, 3}
  /\ Len(btErrors) = 2 /\ btSuccess = 2
  /\ btErr = <<<<"b","a","t","c","h"," ","b","a","c","k","u","p"," ","c","o","m","p","l","e","t","e","d"," ","w","i","t","h"," ","2"," ","e","r","r","o","r","(","s",")">>>>

\* the entry of errors that a failed job is to leave: the profile, the
\* organization when there is one, and the text of the error
ExpectedEntry(job) ==
  <<"P","r","o","f","i","l","e"," ","'">> \o job.profile \o <<"'">>
    \o (IF job.orgID = <<>> THEN <<" ","p","e","r","s","o","n","a","l"," ","v","a","u","l","t">> ELSE <<" ","o","r","g"," ","'">> \o job.orgID \o <<"'">>)
    \o <<":"," ">> \o ErrorText(job.err)
FailedJobsInOrder == SelectSeq(BatchJobs, LAMBDA job : job.err # Nil)
IsPrefix(s, u) == Len(s) <= Len(u) /\ SubSeq(u, 1, Len(s)) = s

\* C21: in runBatchBackup each failing job appends exactly one entry to
\* errors, which names the profile, the organization when the job is an
\* organization backup, and the error message; the entries stand in the
\* order in which the jobs failed and none is ever removed or changed; and
\* after a failure the remaining organizations and profiles are still
\* attempted.
C21_FailuresRecordedInOrder ==
  /\ [](/\ btErrors = [k \in 1..Len(FailedJobsInOrder) |-> ExpectedEntry(FailedJobsInOrder[k])]
        /\ BatchLoopEnded => Len(BatchJobs) = TotalJobs(btIn.profiles))
  /\ [][IsPrefix(btErrors, btErrors') /\ Len(btErrors') <= Len(btErrors) + 1]_vars

\* C21 witness: the personal vault and the first organization of the first
\* profile fail on the container, and the jobs after them are attempted
C21_Witness ==
  /\ btPc = "done"
  /\ Len(btIn.profiles) = 2
  /\ btIn.profiles[1].Organizations = <<<<"X">>, <<"Y">>>>
  /\ Len(BatchJobs) = 3 + Len(btIn.profiles[2].Organizations) + 1
  /\ btErrors = <<<<"P","r","o","f","i","l","e"," ","'","P","'"," ","p","e","r","s","o","n","a","l"," ","v","a","u","l","t",":"," ","d","o","c","k","e","r"," ","r","u","n"," ","f","a","i","l","e","d",":"," ","e","x","i","t"," ","s","t","a","t","u","s"," ","2">>,
                  <<"P","r","o","f","i","l","e"," ","'","P","'"," ","o","r","g"," ","'","X","'",":"," ","d","o","c","k","e","r"," ","r","u","n"," ","f","a","i","l","e","d",":"," ","e","x","i","t"," ","s","t","a","t","u","s"," ","2">>>>

\* the decimal numerals of 1 to 9
Numerals == <<<<"1">>, <<"2">>, <<"3">>, <<"4">>, <<"5">>, <<"6">>, <<"7">>, <<"8">>, <<"9">>>>
BatchReturnedAfterLoop == btPc = "done" /\ btI > 0

\* C22: once its loop has started, runBatchBackup returns an error if and
\* only if at least one job failed, the error states the number of failed
\* jobs, and it returns only after every job of every profile has been
\* attempted: nothing is returned while the loop runs.
C22_AggregateErrorAfterAllJobs ==
  /\ (btI > 0 /\ btPc # "done") => btErr = Nil
  /\ BatchReturnedAfterLoop =>
       /\ Len(BatchJobs) = TotalJobs(btIn.profiles)
       /\ (btErr # Nil) <=> (FailedJobs # {})
       /\ FailedJobs # {} =>
            ErrorText(btErr) = <<"b","a","t","c","h"," ","b","a","c","k","u","p"," ","c","o","m","p","l","e","t","e","d"," ","w","i","t","h"," ">>
                                 \o Numerals[Cardinality(FailedJobs)] \o <<" ","e","r","r","o","r","(","s",")">>

\* C22 witness: three failed jobs out of four
C22_Witness ==
  /\ BatchReturnedAfterLoop
  /\ Len(BatchJobs) = 4
  /\ FailedJobs = {1, 2, 4}
  /\ btErr = <<<<"b","a","t","c","h"," ","b","a","c","k","u","p"," ","c","o","m","p","l","e","t","e","d"," ","w","i","t","h"," ","3"," ","e","r","r","o","r","(","s",")">>>>

\* a batch without a failed job returns nil
C22_NilWitness ==
  /\ BatchReturnedAfterLoop
  /\ Len(BatchJobs) = 4 /\ FailedJobs = {}
  /\ btErr = Nil

\* positions of the container processes and of the lines of the jobs in
\* the events of a batch
BatchProcsAt == {p \in 1..Len(btEvents) : btEvents[p].kind = "exec"}
IsAuditLine(e) == e.kind = "print" /\ e.stream = "stderr" /\ HasPrefix(e.text, <<"[","A","U","D","I","T","]"," ">>)
IsExecutingLine(e) == e.kind = "print" /\ HasPrefix(e.text, <<"E","x","e","c","u","t","i","n","g",":"," ","d","o","c","k","e","r"," ","r","u","n"," ">>)
JobLinesAt == {q \in 1..Len(btEvents) : IsAuditLine(btEvents[q]) \/ IsExecutingLine(btEvents[q])}
\* the jobs attempted so far are the first jobs of the config, in its order
JobsInConfigOrder ==
  IsPrefix([k \in 1..Len(BatchJobs) |->
              [index |-> BatchJobs[k].index, orgID |-> BatchJobs[k].orgID]],
           JobsOfProfiles(btIn.profiles, 1))

\* C23: the jobs of a batch run one after the other.  Every container
\* process has ended when the call that started it returns, so no later
\* event happens while it runs and two containers never run at once; the
\* jobs are attempted in the order of the config file (the personal vault
\* of a profile, its organizations as listed, then the next profile); and
\* the [AUDIT] started line, the Executing line, the process and the
\* [AUDIT] completed/failed line of a job follow one another directly,
\* before the job returns, and every such line belongs to one job.
C23_JobsRunOneAfterTheOther ==
  /\ JobsInConfigOrder
  /\ \A p \in BatchProcsAt :
       /\ btEvents[p].started /\ btEvents[p].waited
       /\ p > 2 /\ p + 2 <= Len(btEvents)
       /\ btEvents[p + 2].kind = "job"
       /\ LET job == btEvents[p + 2]
          IN  /\ btEvents[p - 2] \in
                   {AuditStarted("vault", job.profile, job.orgID, t) : t \in StartTimes}
              /\ IsExecutingLine(btEvents[p - 1])
              /\ btEvents[p + 1] \in
                   {AuditFinished("vault", job.profile, job.orgID, d, job.err) : d \in Durations}
  /\ \A q \in JobLinesAt : \E p \in BatchProcsAt : q \in {p - 2, p - 1, p + 1}

\* C23 witness: a batch of two profiles and four jobs has ended; each job
\* ran its container, the second and the fourth failed
C23_Witness ==
  /\ btPc = "done"
  /\ Len(btIn.profiles) = 2
  /\ Len(BatchJobs) = 4
  /\ Cardinality(BatchProcsAt) = 4
  /\ Cardinality(JobLinesAt) = 12
  /\ FailedJobs = {2, 4}
  /\ [k \in 1..4 |-> BatchJobs[k].orgID] = <<<<>>, <<"X">>, <<"Y">>, <<>>>>

\* positions in the events of a batch where the keychain item of the
\* backup password was consulted or its prompt shown
BackupPasswordAt ==
  {p \in 1..Len(btEvents) :
     /\ btEvents[p].kind \in {"keychain", "prompt"}
     /\ btEvents[p].account = BackupPasswordAccount}
\* positions of what the loop over the profiles does
BatchLoopAt ==
  {q \in 1..Len(btEvents) :
     \/ btEvents[q].kind \in {"job", "exec"}
     \/ btEvents[q] = ProcessingLine(1, Len(btIn.profiles), btIn.profiles[1].Name)}
\* the -e token that hands the backup password to the container
BackupPasswordToken(value) == BwBackupPasswordVar \o EqSign \o value
TokensOf(argv) == {argv[k] : k \in 1..Len(argv)}
BackupPasswordTokens(argv) ==
  {tok \in TokensOf(argv) : HasPrefix(tok, BwBackupPasswordVar \o EqSign)}
\* getBackupPassword goes to the keychain
BatchEncrypts == ~btIn.flags.isSet /\ btIn.flags.encrypt

\* C24: in a batch the backup password is resolved once, before the loop:
\* with --encrypt alone the keychain item bitwarden_backup_password is
\* looked up once and its prompt shown at most once, otherwise never; all
\* of that happens before the first profile is processed; every job is
\* handed the value resolved then, and its container gets it as
\* BW_BACKUP_PASSWORD when it is not empty; and while the loop runs neither
\* the value nor the stored item changes.
C24_BackupPasswordResolvedOnce ==
  /\ [](/\ btEvents # <<>> =>
             Cardinality({p \in BackupPasswordAt :
                            btEvents[p].kind = "keychain" /\ btEvents[p].op = "exists"})
               = (IF BatchEncrypts THEN 1 ELSE 0)
        /\ Cardinality({p \in BackupPasswordAt : btEvents[p].kind = "prompt"}) <= 1
        /\ \A p \in BackupPasswordAt : \A q \in BatchLoopAt : p < q
        /\ \A k \in 1..Len(BatchJobs) : BatchJobs[k].backupPassword = btPassword
        /\ \A q \in BatchProcsAt :
             BackupPasswordTokens(btEvents[q].argv)
               = (IF btPassword = <<>> THEN {} ELSE {BackupPasswordToken(btPassword)}))
  /\ [][btPc # "start" =>
          /\ btPassword' = btPassword
          /\ (BackupPasswordAccount \in DOMAIN kcStore) = (BackupPasswordAccount \in DOMAIN kcStore')
          /\ BackupPasswordAccount \in DOMAIN kcStore =>
               kcStore'[BackupPasswordAccount] = kcStore[BackupPasswordAccount]]_vars

\* C24 witness: a batch with --encrypt of two profiles and four jobs has
\* ended; the password was asked for once and typed as " q ", it was
\* stored as q, and each of the four containers got BW_BACKUP_PASSWORD=q
C24_Witness ==
  /\ btPc = "done"
  /\ BatchEncrypts
  /\ Len(btIn.profiles) = 2
  /\ Len(BatchJobs) = 4
  /\ Cardinality({p \in BackupPasswordAt : btEvents[p].kind = "prompt"}) = 1
  /\ btPassword = <<"q">>
  /\ kcStore[BackupPasswordAccount] = <<"q">>
  /\ Cardinality(BatchProcsAt) = 4
  /\ \A q \in BatchProcsAt : <<"B","W","_","B","A","C","K","U","P","_","P","A","S","S","W","O","R","D","=","q">> \in TokensOf(btEvents[q].argv)

\* the config file was read and names at least one profile
BatchConfigRead == btEvents # <<>>
\* an error of the keychain or of the prompt, as returned by a credential call
IsCredentialError(err) ==
  \E k \in 1..Len(err) :
    \/ err[k] = <<"f","a","i","l","e","d"," ","t","o"," ","r","e","a","d"," ","p","a","s","s","w","o","r","d">>
    \/ HasPrefix(err[k], <<"f","a","i","l","e","d"," ","t","o"," ","r","e","t","r","i","e","v","e"," ">>)
    \/ err[k] \in {<<"f","a","i","l","e","d"," ","t","o"," ","s","a","v","e"," ","p","a","s","s","w","o","r","d"," ","t","o"," ","K","e","y","c","h","a","i","n">>, <<"f","a","i","l","e","d"," ","t","o"," ","u","p","d","a","t","e"," ","p","a","s","s","w","o","r","d"," ","i","n"," ","K","e","y","c","h","a","i","n">>}

\* C25: in a batch whose config file was read, a credential that cannot be
\* resolved, for a profile or for the shared backup password, never ends
\* the batch: when the batch returns every profile was attempted, the
\* failure is an entry of errors, and what is returned is nil or the
\* aggregate error, never the credential error itself.
C25_CredentialFailureNeverAborts ==
  (btPc = "done" /\ BatchConfigRead) =>
    /\ {BatchJobs[k].index : k \in 1..Len(BatchJobs)} = 1..Len(btIn.profiles)
    /\ Len(BatchJobs) = TotalJobs(btIn.profiles)
    /\ ~IsCredentialError(btErr)
    /\ btErr \in {Nil, BatchError(Len(btErrors))}

\* what holds instead: a batch whose config file was read returns without
\* attempting a job exactly when the shared backup password could not be
\* resolved, and it then returns that error; once the loop runs, a job
\* whose own credentials cannot be resolved is an entry of errors and every
\* job of every profile is attempted
C25_OnlyBackupPasswordAborts ==
  (btPc = "done" /\ BatchConfigRead) =>
    IF btI = 0
    THEN /\ BatchEncrypts /\ IsCredentialError(btErr)
         /\ BatchJobs = <<>> /\ btErrors = <<>>
    ELSE /\ Len(BatchJobs) = TotalJobs(btIn.profiles)
         /\ \A k \in FailedJobs : IsCredentialError(BatchJobs[k].err) <=> btIn.failure = "credential"
         /\ Len(btErrors) = Cardinality(FailedJobs)
         /\ btErr \in {Nil, BatchError(Len(btErrors))}
\* a batch of two profiles where jobs failed on their credentials and the
\* later profile was still attempted
C25_ProfileFailureWitness ==
  /\ btPc = "done" /\ btI = 2
  /\ btIn.failure = "credential"
  /\ 1 \in FailedJobs
  /\ BatchJobs[Len(BatchJobs)].index = 2 /\ BatchJobs[Len(BatchJobs)].err = Nil

\* a backup job built its env map and handed it to RunContainer
JobLaunched == bkPc = "done" /\ runPc = "returned"
CredentialVars ==
  {BwClientIdVar, BwClientSecretVar, BwPasswordVar, BwBackupPasswordVar,
   <<"T","W","S","_","U","S","E","R","I","D">>, <<"T","W","S","_","P","A","S","S","W","O","R","D">>}
StructuralVars == {BwProfileVar, BwOrganizationIdVar, <<"T","R","A","D","I","N","G","_","M","O","D","E">>}
\* every variable of env is tagged after its kind
TaggedByKind(env) ==
  /\ DOMAIN env \subseteq CredentialVars \cup StructuralVars
  /\ \A k \in DOMAIN env : env[k].Sensitive = (k \in CredentialVars)
\* key is in env exactly when value is not empty, and then with that value
PresentIffNonEmpty(env, key, value) ==
  /\ (key \in DOMAIN env) = (value # <<>>)
  /\ key \in DOMAIN env => env[key].Value = value

\* C26: the env map a backup job hands to RunContainer holds BW_CLIENTID,
\* BW_CLIENTSECRET and BW_PASSWORD, each credential variable in it is
\* tagged Sensitive and BW_PROFILE and BW_ORGANIZATIONID are not;
\* BW_BACKUP_PASSWORD and BW_ORGANIZATIONID are in it exactly when their
\* value is not empty, and so is BW_PROFILE in a single backup (backupVault
\* always sets it).  The env map of ibgateway holds TWS_USERID and
\* TWS_PASSWORD tagged Sensitive and TRADING_MODE not.
C26_EnvTagsAndOptionalVariables ==
  /\ JobLaunched =>
       LET env == runIn.env
       IN  /\ TaggedByKind(env)
           /\ {BwClientIdVar, BwClientSecretVar, BwPasswordVar} \subseteq DOMAIN env
           /\ env[BwClientIdVar].Value = bkCreds.clientID
           /\ env[BwClientSecretVar].Value = bkCreds.clientSecret
           /\ env[BwPasswordVar].Value = bkCreds.password
           /\ PresentIffNonEmpty(env, BwBackupPasswordVar, bkCreds.backupPassword)
           /\ PresentIffNonEmpty(env, BwOrganizationIdVar, runIn.orgID)
           /\ IF bkIn.mode = "single"
              THEN PresentIffNonEmpty(env, BwProfileVar, bkIn.profile)
              ELSE BwProfileVar \in DOMAIN env /\ env[BwProfileVar].Value = bkIn.profile
  /\ \A mode \in IbModes :
       LET env == IbEnv(IbUser, IbPassword, mode)
       IN  /\ TaggedByKind(env)
           /\ DOMAIN env = {<<"T","W","S","_","U","S","E","R","I","D">>, <<"T","W","S","_","P","A","S","S","W","O","R","D">>, <<"T","R","A","D","I","N","G","_","M","O","D","E">>}

\* C26 witness: a single backup with a profile, an organization and a
\* backup password: six variables
C26_Witness ==
  /\ JobLaunched /\ bkIn.mode = "single"
  /\ DOMAIN runIn.env = {BwClientIdVar, BwClientSecretVar, BwPasswordVar, BwBackupPasswordVar,
                         BwProfileVar, BwOrganizationIdVar}
  /\ runIn.env[BwBackupPasswordVar] = EnvVar(<<"q">>, TRUE)
  /\ runIn.env[BwProfileVar] = EnvVar(<<"Q">>, FALSE)
  /\ runIn.env[BwOrganizationIdVar] = EnvVar(<<"X">>, FALSE)

\* a single backup without any of the three, and a job of a batch without
\* a backup password and an organization
C26_BareWitness ==
  /\ JobLaunched /\ bkIn.mode = "single"
  /\ DOMAIN runIn.env = {BwClientIdVar, BwClientSecretVar, BwPasswordVar}
C26_VaultWitness ==
  /\ JobLaunched /\ bkIn.mode = "vault"
  /\ DOMAIN runIn.env = {BwClientIdVar, BwClientSecretVar, BwPasswordVar, BwProfileVar}

\* getBackupPassword has just returned to runSingleBackup
BackupPasswordCalled ==
  credIn.fn \in {"getBackupPassword:flag", "getBackupPassword:encrypt", "getBackupPassword:none"}
\* the env map runSingleBackup builds from the credentials it holds
SingleBackupEnvs == {EnvOf(SingleBackupEntries(bkCreds, bkIn.profile, orgID)) : orgID \in OrgIds}

\* C27: getBackupPassword has three modes (without --backup-password and
\* --encrypt: "" and the keychain untouched; with --encrypt alone: the
\* keychain item; with --backup-password: the flag's value and the keychain
\* untouched), and whenever --backup-password or --encrypt was given and
\* the call succeeded the job carries a non-empty BW_BACKUP_PASSWORD.
C27_EncryptionFlagsGivePassword ==
  (BackupPasswordCalled /\ credOut.err = Nil) =>
    /\ credIn.fn = "getBackupPassword:none" =>
         credOut.value = <<>> /\ credOut.ops = <<>> /\ kcStore = credBefore
    /\ credIn.fn = "getBackupPassword:flag" =>
         credOut.value = credIn.flagValue /\ credOut.ops = <<>> /\ kcStore = credBefore
    /\ credIn.fn = "getBackupPassword:encrypt" =>
         credOut.ops # <<>> /\ credOut.ops[1].account = BackupPasswordAccount
    /\ credIn.fn # "getBackupPassword:none" =>
         \A env \in SingleBackupEnvs :
           BwBackupPasswordVar \in DOMAIN env /\ env[BwBackupPasswordVar].Value # <<>>

\* what holds instead: the three modes, and the job carries
\* BW_BACKUP_PASSWORD exactly when the value returned is not empty; with
\* --backup-password that is the case exactly when the flag's value is not
\* empty
C27_ThreeModes ==
  BackupPasswordCalled =>
    /\ credIn.fn = "getBackupPassword:none" =>
         /\ credOut.err = Nil /\ credOut.value = <<>>
         /\ credOut.ops = <<>> /\ credOut.prompts = <<>> /\ kcStore = credBefore
    /\ credIn.fn = "getBackupPassword:flag" =>
         /\ credOut.err = Nil /\ credOut.value = credIn.flagValue
         /\ credOut.ops = <<>> /\ credOut.prompts = <<>> /\ kcStore = credBefore
    /\ credIn.fn = "getBackupPassword:encrypt" =>
         /\ credOut.ops # <<>>
         /\ \A k \in 1..Len(credOut.ops) : credOut.ops[k].account = BackupPasswordAccount
         /\ [value |-> credOut.value, err |-> credOut.err, ops |-> credOut.ops,
             prompts |-> credOut.prompts, out |-> credOut.out, store |-> kcStore]
              \in {GetOrSetPassword(credBefore, BackupPasswordAccount, bkIn.reset, o) :
                     o \in BackupOutcomes}
    /\ credOut.err = Nil =>
         /\ bkCreds.backupPassword = credOut.value
         /\ \A env \in SingleBackupEnvs :
              PresentIffNonEmpty(env, BwBackupPasswordVar, credOut.value)
\* --backup-password with a value, --backup-password "" and --encrypt
C27_FlagWitness ==
  /\ credIn.fn = "getBackupPassword:flag" /\ credIn.flagValue = <<"Q">>
  /\ \A env \in SingleBackupEnvs : env[BwBackupPasswordVar] = EnvVar(<<"Q">>, TRUE)
C27_EmptyFlagWitness ==
  /\ credIn.fn = "getBackupPassword:flag" /\ credIn.flagValue = <<>>
  /\ \A env \in SingleBackupEnvs : BwBackupPasswordVar \notin DOMAIN env
C27_EncryptWitness ==
  /\ credIn.fn = "getBackupPassword:encrypt" /\ credOut.err = Nil
  /\ credOut.prompts # <<>>
  /\ \A env \in SingleBackupEnvs : env[BwBackupPasswordVar] = EnvVar(<<"q">>, TRUE)

\* getCredential has just returned to a backup job
CredentialCalled == credIn.fn = "getCredential"
\* the accounts the call addressed
AccountsTouched ==
  {credOut.ops[k].account : k \in 1..Len(credOut.ops)}
    \cup {credOut.prompts[k].account : k \in 1..Len(credOut.prompts)}
\* every account but those of keep holds what it held before the call
OthersUntouched(keep) ==
  \A a \in (DOMAIN credBefore \cup DOMAIN kcStore) \ keep :
    a \in DOMAIN credBefore /\ a \in DOMAIN kcStore /\ kcStore[a] = credBefore[a]

\* C28: for each of the three credentials, different profile names give
\* different keychain accounts, none of them the unsuffixed account of the
\* default profile or bitwarden_backup_password; a call of getCredential
\* for a profile, with or without reset, addresses the account of that
\* profile only, returns no value stored for another profile, and leaves
\* the items of the other profiles, of the default profile and the backup
\* password as they were; and getBackupPassword addresses
\* bitwarden_backup_password only, whatever the profile of the job.
C28_ProfilesDoNotShareAccounts ==
  /\ \A a \in CredentialAccounts : \A p1, p2 \in StoredProfiles \ {<<>>} :
       /\ p1 # p2 => AccountFor(a, p1) # AccountFor(a, p2)
       /\ AccountFor(a, p1) \notin CredentialAccounts \cup {BackupPasswordAccount}
  /\ CredentialCalled =>
       /\ AccountsTouched \subseteq {ExpectedAccount}
       /\ OthersUntouched({ExpectedAccount})
       /\ ExpectedAccount \notin ForeignAccounts(credIn.profile) \cup {BackupPasswordAccount}
       /\ credOut.value # <<"J">>
  /\ BackupPasswordCalled =>
       /\ AccountsTouched \subseteq {BackupPasswordAccount}
       /\ OthersUntouched({BackupPasswordAccount})

\* C28 witness: the client id of profile Q is reset while the keychain
\* holds the items of the default profile and of profile QQ: the item of Q
\* is deleted and written anew, the others still hold J
C28_Witness ==
  /\ CredentialCalled
  /\ credIn.profile = <<"Q">> /\ credIn.keychainAccount = BitwardenClientId /\ credIn.reset
  /\ \E k \in 1..Len(credOut.ops) :
       credOut.ops[k] = KcOp("delete", <<"b","i","t","w","a","r","d","e","n","_","c","l","i","e","n","t","_","i","d","_","Q">>, TRUE)
  /\ <<"b","i","t","w","a","r","d","e","n","_","c","l","i","e","n","t","_","i","d","_","Q">> \in DOMAIN credBefore
  /\ credBefore[<<"b","i","t","w","a","r","d","e","n","_","c","l","i","e","n","t","_","i","d","_","Q">>] = <<"j">>
  /\ <<"b","i","t","w","a","r","d","e","n","_","c","l","i","e","n","t","_","i","d","_","Q">> \in DOMAIN kcStore
  /\ kcStore[<<"b","i","t","w","a","r","d","e","n","_","c","l","i","e","n","t","_","i","d","_","Q">>] = <<"q">>
  /\ kcStore[<<"b","i","t","w","a","r","d","e","n","_","c","l","i","e","n","t","_","i","d">>] = <<"J">>
  /\ kcStore[<<"b","i","t","w","a","r","d","e","n","_","c","l","i","e","n","t","_","i","d","_","Q","Q">>] = <<"J">>
  /\ kcStore[BackupPasswordAccount] = <<"j">>
\* the backup password of a job of profile Q is resolved from the global item
C28_BackupPasswordWitness ==
  /\ credIn.fn = "getBackupPassword:encrypt" /\ bkIn.profile = <<"Q">>
  /\ credOut.ops = <<KcOp("exists", BackupPasswordAccount, TRUE),
                     KcOp("get", BackupPasswordAccount, TRUE)>>
  /\ credOut.value = <<"j">>

\* the account held a value and `security find-generic-password` found it
FoundBefore ==
  /\ ExpectedAccount \in DOMAIN credBefore
  /\ credOut.ops[1] = KcOp("exists", ExpectedAccount, TRUE)
\* the stored value was deleted
Deleted == Len(credOut.ops) >= 2 /\ credOut.ops[2] = KcOp("delete", ExpectedAccount, TRUE)

\* C29 as stated: a call with reset that fails leaves the account without
\* a stored value, and a call without reset that fails leaves the keychain
\* as it was.
C29_FailedResetLeavesNoValue ==
  (KeychainCall /\ credOut.err # Nil) =>
    IF credIn.reset THEN ExpectedAccount \notin DOMAIN kcStore
    ELSE kcStore = credBefore

\* C29 amended: with reset, a value that is found is deleted before the
\* prompt, whatever the prompt does, and the error of the deletion is
\* dropped.  A call with reset that fails leaves the account without a
\* value when the deletion succeeded or nothing was stored; when the
\* stored value was not found or its deletion failed the old value is
\* still there.  A call without reset that fails leaves the keychain as it
\* was.  Only the account of the call is ever changed.
C29_FailedResetLosesDeletedValue ==
  KeychainCall =>
    /\ (credIn.reset /\ FoundBefore) =>
         /\ Len(credOut.ops) >= 2 /\ credOut.ops[2].op = "delete"
         /\ credOut.prompts # <<>>
    /\ (credIn.reset /\ credOut.err # Nil) =>
         /\ credOut.value = <<>>
         /\ IF Deleted \/ ExpectedAccount \notin DOMAIN credBefore
            THEN ExpectedAccount \notin DOMAIN kcStore
            ELSE kcStore = credBefore
         /\ OthersUntouched({ExpectedAccount})
    /\ (~credIn.reset /\ credOut.err # Nil) => kcStore = credBefore

\* C29 witness: reset of an account that holds a value, the prompt cannot
\* be read: the call fails and the value is gone
C29_Witness ==
  /\ KeychainCall /\ credIn.reset
  /\ FoundBefore /\ Deleted
  /\ credOut.err = <<<<"f","a","i","l","e","d"," ","t","o"," ","r","e","a","d"," ","p","a","s","s","w","o","r","d">>, <<"E","O","F">>>>
  /\ credOut.ops = <<KcOp("exists", ExpectedAccount, TRUE), KcOp("delete", ExpectedAccount, TRUE)>>
  /\ ExpectedAccount \notin DOMAIN kcStore
\* the deletion fails and the new value cannot be written: the call fails
\* and the old value is still stored
C29_KeptWitness ==
  /\ KeychainCall /\ credIn.reset
  /\ FoundBefore
  /\ credOut.ops = <<KcOp("exists", ExpectedAccount, TRUE), KcOp("delete", ExpectedAccount, FALSE),
                     KcOp("set", ExpectedAccount, FALSE)>>
  /\ credOut.err # Nil
  /\ kcStore = credBefore
\* without reset the stored value cannot be read: the call fails, the
\* value is kept
C29_NoResetWitness ==
  /\ KeychainCall /\ ~credIn.reset
  /\ FoundBefore
  /\ credOut.err # Nil
  /\ kcStore = credBefore

\* the keychain commands and the prompts for an account among events
OpsOn(events, account) ==
  SelectSeq(events, LAMBDA e : e.kind = "keychain" /\ e.account = account)
OpNamesOn(events, account) ==
  [k \in 1..Len(OpsOn(events, account)) |-> OpsOn(events, account)[k].op]
PromptsOn(events, account) ==
  SelectSeq(events, LAMBDA e : e.kind = "prompt" /\ e.account = account)
DeletionsOn(events, account) ==
  SelectSeq(events, LAMBDA e : e.kind = "keychain" /\ e.account = account /\ e.op = "delete")
\* the env variable a credential is handed over in
VarOf(account) ==
  CASE account = BitwardenClientId -> BwClientIdVar
    [] account = BitwardenClientSecret -> BwClientSecretVar
    [] account = BitwardenPassword -> BwPasswordVar
\* a batch with --reset whose loop has ended and whose jobs all resolved
\* their credentials
ResetBatchEnded == BatchLoopEnded /\ btIn.flags.reset /\ btIn.failure = "container"
\* the values the containers of the batch got for a credential, job by job
ValuesUsed(account) ==
  [k \in 1..Len(Procs(btEvents)) |->
     {ValueOf(tok) : tok \in {t \in TokensOf(Procs(btEvents)[k].argv) :
                                HasPrefix(t, VarOf(account) \o EqSign)}}]

JobStep == btPc = "personal" \/ (btPc = "orgs" /\ btJ' = btJ + 1)
NewEvents == SubSeq(btEvents', Len(btEvents) + 1, Len(btEvents'))

C30_EmptyStoreWitness ==
  /\ ResetBatchEnded /\ btPc = "done"
  /\ btIn.profiles[1].Organizations = <<<<"X">>, <<"Y">>>>
  /\ Len(DeletionsOn(btEvents, <<"b","i","t","w","a","r","d","e","n","_","c","l","i","e","n","t","_","i","d","_","P">>)) = 2
  /\ Len(PromptsOn(btEvents, <<"b","i","t","w","a","r","d","e","n","_","c","l","i","e","n","t","_","i","d","_","P">>)) = 3

====
